---- MODULE Spec2Model ----
(***************************************************************************)
(* Model of the privacy-risk backend: the risk scorer (app/ml),            *)
(* the PII detector (app/nlp) and the tiered LLM service (app/llm).        *)
(*                                                                         *)
(* Numbers.  Python floats are modelled by exact rationals [n, d] (n/d).   *)
(* RiskScore.score, which the code rounds to two decimals, is an integer   *)
(* number of hundredths (3000 is 30.00).  Weights and thresholds of        *)
(* config.py are integers in hundredths (15 is 0.15).                      *)
(***************************************************************************)
EXTENDS Integers, Sequences, FiniteSets, TLC

VARIABLES
    model_file,   \* the classifier artifact on disk: "missing", "present", "corrupt_model", "corrupt_scaler"
    startup,      \* what MLService._initialize met when the process started
    ml,           \* the ml_service singleton: [model, scaler, model_type]
    weights,      \* settings.FEATURE_WEIGHTS
    features,     \* the Features of the last calculate_risk_score call, or Idle
    risk,         \* what that call returned: a RiskScore, ValidationError, or Idle
    clf,          \* the classifier call of _ml_based_scoring: [input, prediction, probabilities], or Idle
    nlp_svc,      \* the nlp_service singleton: [nlp, analyzer]
    detect_in,    \* what the two backends do in the current detect_pii call, or Idle
    detect_out,   \* what detect_pii did: [raised, entities], or Idle
    llm_env,      \* [genai, gemini_key]: google.generativeai imported, settings.GEMINI_API_KEY set
    llm_svc,      \* the llm_service singleton: [llm, enabled]
    llm_in,       \* the current LLM operation, its arguments and what each provider does, or Idle
    llm_out,      \* what the operation did: [raised, value, tiers], or Idle
    feat_in,      \* the arguments of the current feature-stage call, or Idle
    feat_out,     \* what that call returned, or Idle
    an_in,        \* the current analysis request and what the backends and providers do in it, or Idle
    an_out,       \* the handler's response and the calls it made, or Idle
    an_first,     \* an earlier request of this process and its response, or Idle
    use_memory,   \* mongodb.use_memory after connect_to_mongo
    memory_storage, \* _memory_storage: the documents of each collection, in insertion order
    last_id,      \* how many ObjectId() / uuid4() values the process has generated
    db_in,        \* the current request to a store route, or Idle
    db_out,       \* its response, or Idle
    tasks,        \* the handler coroutines in flight, by client
    loop          \* the client whose coroutine holds the event loop, or 0

scorerVars == <<model_file, startup, ml, weights, features, risk, clf>>

detectVars == <<nlp_svc, detect_in, detect_out>>

llmVars == <<llm_env, llm_svc, llm_in, llm_out>>

featVars == <<feat_in, feat_out>>

pipeVars == <<an_in, an_out, an_first>>

dbVars == <<use_memory, memory_storage, last_id, db_in, db_out>>

taskVars == <<tasks, loop>>

vars == <<scorerVars, detectVars, llmVars, featVars, pipeVars, dbVars, taskVars>>

None == "None"

\* the value of a handler's local before the handler has run
Idle == [idle |-> TRUE]

Min(a, b) == IF a < b THEN a ELSE b

\* _memory_storage = {}: no collection holds a document
EmptyStorage == [analysis_results |-> <<>>, users |-> <<>>]

(***************************************************************************)
(* Bounds of the scorer's inputs.                                          *)
(***************************************************************************)
\* most entities of one request, over all buckets
MaxEnt == 4
\* class probabilities are multiples of 1/ProbGrid
ProbGrid == 8
\* text lengths drawn: empty, the request minimum, a short text, the
\* normalisation cap, and a text beyond the cap
TextLengths == {0, 10, 66, 1000, 2000}
\* sensitive-keyword counts drawn: none, one, the cap, the whole list
KeywordCounts == {0, 1, 5, 16}

(***************************************************************************)
(* app/core/config.py                                                      *)
(***************************************************************************)
RISK_LOW_THRESHOLD == 30
RISK_MEDIUM_THRESHOLD == 60

FEATURE_WEIGHTS ==
    [num_emails |-> 15, num_phones |-> 15, num_locations |-> 10,
     num_persons |-> 12, num_organizations |-> 8, text_length |-> 5,
     entity_density |-> 20, sensitive_keywords |-> 15]

(***************************************************************************)
(* app/models/schemas.py                                                   *)
(***************************************************************************)
LOW == "LOW"
MEDIUM == "MEDIUM"
HIGH == "HIGH"
RiskLevel == {LOW, MEDIUM, HIGH}

ValidationError == [error |-> "ValidationError"]

\* RiskScore(...): pydantic checks score in [0,100], ml_probability and
\* confidence in [0,1], and raises ValidationError otherwise.
RiskScore(score, level, ml_probability, confidence) ==
    IF /\ 0 <= score /\ score <= 10000
       /\ level \in RiskLevel
       /\ 0 <= ml_probability.n /\ ml_probability.n <= ml_probability.d
       /\ 0 <= confidence.n /\ confidence.n <= confidence.d
    THEN [score |-> score, level |-> level,
          ml_probability |-> ml_probability, confidence |-> confidence]
    ELSE ValidationError

IsRiskScore(r) == "score" \in DOMAIN r

(***************************************************************************)
(* Python's round(x, 2) of x = n/d * 100 hundredths: round(n/d) to the     *)
(* nearest integer, ties to even.                                          *)
(***************************************************************************)
RoundHalfEven(n, d) ==
    LET q == n \div d
        r == n % d
    IN  IF 2 * r < d THEN q
        ELSE IF 2 * r > d THEN q + 1
        ELSE IF q % 2 = 0 THEN q ELSE q + 1

(***************************************************************************)
(* app/ml/risk_scorer.py: MLService                                        *)
(***************************************************************************)
\* _initialize_default_model
InitializeDefaultModel ==
    [model |-> None, scaler |-> "StandardScaler", model_type |-> "rule_based"]

InitializeKeepsLoadedModel(file) ==
    IF file = "missing" THEN InitializeDefaultModel
    ELSE IF file = "corrupt_model"
         THEN [model |-> None, scaler |-> None, model_type |-> "rule_based"]
    ELSE IF file = "corrupt_scaler"
         THEN [model |-> "classifier", scaler |-> None, model_type |-> "rule_based"]
    ELSE [model |-> "classifier", scaler |-> "scaler", model_type |-> "trained"]

\* __init__ and _initialize: the state of the service after construction,
\* given the artifact found on disk.  joblib.load of the model or of the
\* scaler may raise; the handler resets the three fields.
Initialize(file) ==
    IF file = "missing" THEN InitializeDefaultModel
    ELSE IF file \in {"corrupt_model", "corrupt_scaler"} THEN InitializeDefaultModel
    ELSE [model |-> "classifier", scaler |-> "scaler", model_type |-> "trained"]

BucketNames ==
    {"num_emails", "num_phones", "num_locations", "num_persons",
     "num_organizations", "num_dates", "num_other"}

RECURSIVE SumValues(_, _)
SumValues(f, keys) ==
    IF keys = {} THEN 0
    ELSE LET k == CHOOSE x \in keys : TRUE
         IN  f[k] + SumValues(f, keys \ {k})

\* extract_features(text, entity_counts, sensitive_keywords), with the text
\* given by its length.  total_entities = sum(entity_counts.values()).
extract_features(text_length, entity_counts, sensitive_keywords) ==
    LET total_entities == SumValues(entity_counts, DOMAIN entity_counts)
    IN  [num_emails |-> entity_counts["num_emails"],
         num_phones |-> entity_counts["num_phones"],
         num_locations |-> entity_counts["num_locations"],
         num_persons |-> entity_counts["num_persons"],
         num_organizations |-> entity_counts["num_organizations"],
         num_dates |-> entity_counts["num_dates"],
         text_length |-> text_length,
         entity_density |-> IF text_length > 0
                            THEN [n |-> total_entities, d |-> text_length]
                            ELSE [n |-> 0, d |-> 1],
         sensitive_keywords_count |-> sensitive_keywords]

\* The caps 3, 2, 5, 3, 3, 1000, 5 of the normalisation divide NormUnit:
\* a normalised feature is an integer number of 1/NormUnit.
NormUnit == 3000

NormalizeResetAboveCap(value, cap) ==
    IF value > cap THEN 0 ELSE value * (NormUnit \div cap)

\* min(value / cap, 1.0), in 1/NormUnit
Normalize(value, cap) == Min(value * (NormUnit \div cap), NormUnit)

\* min(entity_density * 100, 1.0), in 1/entity_density.d
NormalizeDensityUnclipped(density) == density.n * 100

NormalizeDensity(density) == Min(density.n * 100, density.d)

\* weights.get(feature, 0.1)
WeightOf(w, feature) == IF feature \in DOMAIN w THEN w[feature] ELSE 10

WeightedSumWithDates(f, w) ==
    LET d == f.entity_density.d
        capped == Normalize(f.num_emails, 3) * WeightOf(w, "num_emails")
                + Normalize(f.num_phones, 2) * WeightOf(w, "num_phones")
                + Normalize(f.num_locations, 5) * WeightOf(w, "num_locations")
                + Normalize(f.num_persons, 3) * WeightOf(w, "num_persons")
                + Normalize(f.num_organizations, 3) * WeightOf(w, "num_organizations")
                + Normalize(f.num_dates, 3) * WeightOf(w, "num_dates")
                + Normalize(f.text_length, 1000) * WeightOf(w, "text_length")
                + Normalize(f.sensitive_keywords_count, 5) * WeightOf(w, "sensitive_keywords")
    IN  [n |-> capped * d
               + NormUnit * NormalizeDensity(f.entity_density) * WeightOf(w, "entity_density"),
         d |-> NormUnit * 100 * d]

\* The weighted sum `score` of _rule_based_scoring as the rational
\* WeightedSum(f, w).n / WeightedSum(f, w).d.
WeightedSum(f, w) ==
    LET d == f.entity_density.d
        capped == Normalize(f.num_emails, 3) * WeightOf(w, "num_emails")
                + Normalize(f.num_phones, 2) * WeightOf(w, "num_phones")
                + Normalize(f.num_locations, 5) * WeightOf(w, "num_locations")
                + Normalize(f.num_persons, 3) * WeightOf(w, "num_persons")
                + Normalize(f.num_organizations, 3) * WeightOf(w, "num_organizations")
                + Normalize(f.text_length, 1000) * WeightOf(w, "text_length")
                + Normalize(f.sensitive_keywords_count, 5) * WeightOf(w, "sensitive_keywords")
    IN  [n |-> capped * d
               + NormUnit * NormalizeDensity(f.entity_density) * WeightOf(w, "entity_density"),
         d |-> NormUnit * 100 * d]

\* round(min(score * 100, 100), 2), in hundredths
Score100(score) ==
    IF score.n >= score.d THEN 10000
    ELSE RoundHalfEven(score.n, score.d \div 10000)

LevelOfScore100(score) ==
    IF Score100(score) < RISK_LOW_THRESHOLD THEN LOW
    ELSE IF Score100(score) < RISK_MEDIUM_THRESHOLD THEN MEDIUM
    ELSE HIGH

\* if score < RISK_LOW_THRESHOLD ... elif score < RISK_MEDIUM_THRESHOLD ... else
LevelOf(score) ==
    IF score.n < RISK_LOW_THRESHOLD * (score.d \div 100) THEN LOW
    ELSE IF score.n < RISK_MEDIUM_THRESHOLD * (score.d \div 100) THEN MEDIUM
    ELSE HIGH

\* _rule_based_scoring(features)
rule_based_scoring(f, w) ==
    LET score == WeightedSum(f, w)
    IN  RiskScore(Score100(score), LevelOf(score), score, [n |-> 75, d |-> 100])

\* feature_array = np.array([[...]]): the row handed on to the scaler
FeatureArrayWithoutDates(f) ==
    <<f.num_emails, f.num_phones, f.num_locations, f.num_persons,
      f.num_organizations, f.text_length, f.entity_density,
      f.sensitive_keywords_count>>

feature_array(f) ==
    <<f.num_emails, f.num_phones, f.num_locations, f.num_persons,
      f.num_organizations, f.num_dates, f.text_length, f.entity_density,
      f.sensitive_keywords_count>>

\* self.scaler.transform(feature_array): the scaled row, opaque
transform(scaler, X) == [scaler |-> scaler, X |-> X]

\* what model.predict and model.predict_proba are called with:
\* if self.scaler: feature_array = self.scaler.transform(feature_array)
ClassifierInput(svc, f) ==
    IF svc.scaler # None THEN transform(svc.scaler, feature_array(f))
    ELSE feature_array(f)

MlBasedScoringLowAtZero(f, prediction, probabilities) ==
    LET risk_levels == <<LOW, MEDIUM, HIGH>>
        ml_probability == [n |-> probabilities[prediction + 1], d |-> ProbGrid]
        score_100 == RoundHalfEven(
            (probabilities[2] * 60 + probabilities[3] * 100) * 100,
            ProbGrid)
    IN  RiskScore(score_100, risk_levels[prediction + 1], ml_probability, ml_probability)

\* _ml_based_scoring(features): the classifier is opaque; `prediction` is
\* model.predict(...)[0] and `probabilities` is model.predict_proba(...)[0],
\* in 1/ProbGrid.
ml_based_scoring(f, prediction, probabilities) ==
    LET risk_levels == <<LOW, MEDIUM, HIGH>>
        ml_probability == [n |-> probabilities[prediction + 1], d |-> ProbGrid]
        score_100 == RoundHalfEven(
            (probabilities[1] * 25 + probabilities[2] * 60 + probabilities[3] * 100) * 100,
            ProbGrid)
    IN  RiskScore(score_100, risk_levels[prediction + 1], ml_probability, ml_probability)

\* calculate_risk_score(features)
calculate_risk_score(svc, w, f, prediction, probabilities) ==
    IF svc.model # None /\ svc.model_type = "trained"
    THEN ml_based_scoring(f, prediction, probabilities)
    ELSE rule_based_scoring(f, w)

(***************************************************************************)
(* Inputs of the scorer.                                                   *)
(***************************************************************************)
EntityCounts ==
    {c \in [BucketNames -> 0..MaxEnt] : SumValues(c, BucketNames) <= MaxEnt}

FeatureVectors ==
    {extract_features(len, c, k) : len \in TextLengths, c \in EntityCounts, k \in KeywordCounts}

\* predict_proba: non-negative, summing to 1
ClassProbabilities ==
    {p \in [1..3 -> 0..ProbGrid] : p[1] + p[2] + p[3] = ProbGrid}

ArtifactStates == {"missing", "present", "corrupt_model", "corrupt_scaler"}

(***************************************************************************)
(* The scorer over the life of one process.                                *)
(***************************************************************************)
InitScorer ==
    /\ model_file \in ArtifactStates
    /\ startup = model_file
    /\ ml = Initialize(model_file)
    /\ weights = FEATURE_WEIGHTS
    /\ features = Idle
    /\ risk = Idle
    /\ clf = Idle
    /\ nlp_svc = [nlp |-> "spacy", analyzer |-> "AnalyzerEngine"]
    /\ detect_in = Idle
    /\ detect_out = Idle
    /\ llm_env = [genai |-> TRUE, gemini_key |-> FALSE]
    /\ llm_svc = [llm |-> None, enabled |-> FALSE]
    /\ llm_in = Idle
    /\ llm_out = Idle
    /\ feat_in = Idle
    /\ feat_out = Idle
    /\ an_in = Idle
    /\ an_out = Idle
    /\ an_first = Idle
    /\ use_memory = FALSE
    /\ memory_storage = EmptyStorage
    /\ last_id = 0
    /\ db_in = Idle
    /\ db_out = Idle
    /\ tasks = <<>>
    /\ loop = 0

\* ml_service.calculate_risk_score(features), as analyze_text calls it
CalculateRiskScore ==
    /\ risk = Idle
    /\ \E f \in FeatureVectors :
          /\ features' = f
          /\ IF ml.model # None /\ ml.model_type = "trained"
             THEN \E prediction \in 0..2, probabilities \in ClassProbabilities :
                     /\ risk' = calculate_risk_score(ml, weights, f, prediction, probabilities)
                     /\ clf' = [input |-> ClassifierInput(ml, f),
                                prediction |-> prediction,
                                probabilities |-> probabilities]
             ELSE /\ risk' = calculate_risk_score(ml, weights, f, 0, <<ProbGrid, 0, 0>>)
                  /\ clf' = Idle
    /\ UNCHANGED <<featVars, pipeVars, model_file, startup, ml, weights, detectVars, llmVars, dbVars, taskVars>>

\* scripts/train_model.py save_models: the offline training run writes the
\* artifact while the process is up.
SaveModels ==
    /\ model_file # "present"
    /\ model_file' = "present"
    /\ UNCHANGED <<featVars, pipeVars, startup, ml, weights, features, risk, clf, detectVars, llmVars, dbVars, taskVars>>

\* the request handler returns: its locals are gone
ReturnRiskScore ==
    /\ risk # Idle
    /\ features' = Idle
    /\ risk' = Idle
    /\ clf' = Idle
    /\ UNCHANGED <<featVars, pipeVars, model_file, startup, ml, weights, detectVars, llmVars, dbVars, taskVars>>

NextScorer == CalculateRiskScore \/ ReturnRiskScore \/ SaveModels

SpecScorer == InitScorer /\ [][NextScorer]_vars


(***************************************************************************)
(* app/nlp/pii_detector.py: NLPService                                     *)
(*                                                                         *)
(* A text is given by what the two backends find in it.  Backend A         *)
(* (Presidio) returns results [entity_type, start, end, score]; Backend B  *)
(* (spaCy) returns ents [label_, start_char, end_char].  A PIIEntity is    *)
(* [type, start, end, confidence]; its text is the span's substring and    *)
(* is left out.  Confidences are in hundredths.                            *)
(***************************************************************************)
\* most results one backend returns for one text
MaxResults == 2
\* spans drawn: two that share a start, and one that starts later
Spans == {<<0, 1>>, <<0, 2>>, <<1, 2>>}
PresidioTypes == {"EMAIL_ADDRESS", "PERSON"}
PresidioScores == {100}
SpacyLabels == {"PERSON", "CARDINAL"}

\* __init__ and _initialize: the service after construction.  spacy is
\* "ok", "fallback" (the configured model is missing, en_core_web_sm loads)
\* or "unavailable" (both loads fail: nlp stays None).  presidio is "ok" or
\* "default" (the configured engine fails, AnalyzerEngine() is built
\* instead).  A load that raises out of the constructor ends the process
\* at import: no service exists.
NLPInitialize(spacy, presidio) ==
    [nlp |-> IF spacy = "unavailable" THEN None ELSE "spacy",
     analyzer |-> "AnalyzerEngine"]

BackendReturns(results) == [ok |-> TRUE, results |-> results]
BackendRaises == [ok |-> FALSE, results |-> <<>>]

DetectRaised == [raised |-> TRUE, entities |-> <<>>]
DetectReturned(entities) == [raised |-> FALSE, entities |-> entities]

PIIEntity(type, start, end, confidence) ==
    [type |-> type, start |-> start, end |-> end, confidence |-> confidence]

\* for result in results: ... (lines 76-86), on st = [entities, seen_spans]
RECURSIVE PresidioLoop(_, _)
PresidioLoop(results, st) ==
    IF results = <<>> THEN st
    ELSE LET result == Head(results)
             span == <<result.start, result.end>>
         IN  PresidioLoop(Tail(results),
                IF span \notin st.seen_spans
                THEN [entities |-> Append(st.entities,
                          PIIEntity(result.entity_type, result.start, result.end, result.score)),
                      seen_spans |-> st.seen_spans \cup {span}]
                ELSE st)

SpacyKeepsAnySpan(seen_spans, ent) ==
    ent.label_ \in {"PERSON", "GPE", "LOC", "ORG", "DATE"}

\* span not in seen_spans and ent.label_ in [...]
SpacyKeeps(seen_spans, ent) ==
    /\ <<ent.start_char, ent.end_char>> \notin seen_spans
    /\ ent.label_ \in {"PERSON", "GPE", "LOC", "ORG", "DATE"}

\* for ent in doc.ents: ... (lines 91-101)
RECURSIVE SpacyLoop(_, _)
SpacyLoop(ents, st) ==
    IF ents = <<>> THEN st
    ELSE LET ent == Head(ents)
             span == <<ent.start_char, ent.end_char>>
         IN  SpacyLoop(Tail(ents),
                IF SpacyKeeps(st.seen_spans, ent)
                THEN [entities |-> Append(st.entities,
                          PIIEntity(ent.label_, ent.start_char, ent.end_char, 85)),
                      seen_spans |-> st.seen_spans \cup {span}]
                ELSE st)

RECURSIVE InsertBeforeEqualStart(_, _)
InsertBeforeEqualStart(sorted, e) ==
    IF sorted = <<>> THEN <<e>>
    ELSE IF Head(sorted).start < e.start
         THEN <<Head(sorted)>> \o InsertBeforeEqualStart(Tail(sorted), e)
         ELSE <<e>> \o sorted

\* list.sort is stable: an element goes after those with a key not above its own
RECURSIVE InsertByStart(_, _)
InsertByStart(sorted, e) ==
    IF sorted = <<>> THEN <<e>>
    ELSE IF Head(sorted).start <= e.start
         THEN <<Head(sorted)>> \o InsertByStart(Tail(sorted), e)
         ELSE <<e>> \o sorted

\* entities.sort(key=lambda x: x.start)
RECURSIVE SortByStart(_)
SortByStart(entities) ==
    IF entities = <<>> THEN <<>>
    ELSE InsertByStart(SortByStart(SubSeq(entities, 1, Len(entities) - 1)),
                       entities[Len(entities)])

\* detect_pii(text): a is what analyzer.analyze does, b what nlp(text) does.
\* No call is inside a try: a backend that raises ends detect_pii.
detect_pii(svc, a, b) ==
    LET st0 == [entities |-> <<>>, seen_spans |-> {}]
        useA == svc.analyzer # None
        useB == svc.nlp # None
        st1 == IF useA /\ a.ok THEN PresidioLoop(a.results, st0) ELSE st0
        st2 == IF useB /\ b.ok THEN SpacyLoop(b.results, st1) ELSE st1
    IN  IF useA /\ ~a.ok THEN DetectRaised
        ELSE IF useB /\ ~b.ok THEN DetectRaised
        ELSE DetectReturned(SortByStart(st2.entities))

(***************************************************************************)
(* Inputs of the detector.                                                 *)
(***************************************************************************)
SeqsUpTo(S, n) == UNION {[1..k -> S] : k \in 0..n}

PresidioResults ==
    {[entity_type |-> t, start |-> sp[1], end |-> sp[2], score |-> c] :
        t \in PresidioTypes, sp \in Spans, c \in PresidioScores}

SpacyEnts ==
    {[label_ |-> l, start_char |-> sp[1], end_char |-> sp[2]] :
        l \in SpacyLabels, sp \in Spans}

PresidioOutcomes ==
    {BackendReturns(r) : r \in SeqsUpTo(PresidioResults, MaxResults)} \cup {BackendRaises}

SpacyOutcomes ==
    {BackendReturns(r) : r \in SeqsUpTo(SpacyEnts, MaxResults)} \cup {BackendRaises}

(***************************************************************************)
(* The detector over the life of one process.                              *)
(***************************************************************************)
InitDetect ==
    /\ model_file = "missing"
    /\ startup = model_file
    /\ ml = Initialize(model_file)
    /\ weights = FEATURE_WEIGHTS
    /\ features = Idle
    /\ risk = Idle
    /\ clf = Idle
    /\ \E spacy \in {"ok", "fallback", "unavailable"}, presidio \in {"ok", "default"} :
          nlp_svc = NLPInitialize(spacy, presidio)
    /\ detect_in = Idle
    /\ detect_out = Idle
    /\ llm_env = [genai |-> TRUE, gemini_key |-> FALSE]
    /\ llm_svc = [llm |-> None, enabled |-> FALSE]
    /\ llm_in = Idle
    /\ llm_out = Idle
    /\ feat_in = Idle
    /\ feat_out = Idle
    /\ an_in = Idle
    /\ an_out = Idle
    /\ an_first = Idle
    /\ use_memory = FALSE
    /\ memory_storage = EmptyStorage
    /\ last_id = 0
    /\ db_in = Idle
    /\ db_out = Idle
    /\ tasks = <<>>
    /\ loop = 0

\* nlp_service.detect_pii(request.text), as analyze_text calls it.  With
\* nlp None Backend B is not called.
DetectPii ==
    /\ detect_out = Idle
    /\ \E a \in PresidioOutcomes :
       \E b \in IF nlp_svc.nlp # None THEN SpacyOutcomes ELSE {BackendReturns(<<>>)} :
          /\ detect_in' = [a |-> a, b |-> b]
          /\ detect_out' = detect_pii(nlp_svc, a, b)
    /\ UNCHANGED <<featVars, pipeVars, scorerVars, nlp_svc, llmVars, dbVars, taskVars>>

\* the handler returns
ReturnDetect ==
    /\ detect_out # Idle
    /\ detect_in' = Idle
    /\ detect_out' = Idle
    /\ UNCHANGED <<featVars, pipeVars, scorerVars, nlp_svc, llmVars, dbVars, taskVars>>

NextDetect == DetectPii \/ ReturnDetect

SpecDetect == InitDetect /\ [][NextDetect]_vars


(***************************************************************************)
(* app/llm/llm_service.py: LLMService                                      *)
(*                                                                         *)
(* A string is a sequence of tokens; " " is whitespace.  A provider's      *)
(* response to a recommendation prompt is a sequence of lines (the text    *)
(* split at newlines), each line a sequence of characters.  What a         *)
(* provider does in a call is [kind, text]: kind "raise" (the call         *)
(* raises), "none" (the response carries None) or "text".                  *)
(***************************************************************************)
\* most lines of a provider's recommendation response
MaxLines == 6

Digits == {"0", "1", "2", "3", "4", "5", "6", "7", "8", "9"}

RECURSIVE LStrip(_, _)
LStrip(str, chars) ==
    IF str # <<>> /\ Head(str) \in chars THEN LStrip(Tail(str), chars) ELSE str

RECURSIVE RStrip(_, _)
RStrip(str, chars) ==
    IF str # <<>> /\ str[Len(str)] \in chars
    THEN RStrip(SubSeq(str, 1, Len(str) - 1), chars)
    ELSE str

\* str.strip()
Strip(str) == RStrip(LStrip(str, {" "}), {" "})

\* text.strip() of a response given by its lines is empty
BlankLines(lines) == \A i \in 1..Len(lines) : Strip(lines[i]) = <<>>

ProviderRaises == [kind |-> "raise", text |-> <<>>]
ProviderNone == [kind |-> "none", text |-> <<>>]
ProviderText(text) == [kind |-> "text", text |-> text]
NotCalled == [kind |-> "not called", text |-> <<>>]

\* what the body of one tier does: returns a value from the operation,
\* falls out of its block to the next tier, or raises
TierReturn(value) == [status |-> "return", value |-> value]
TierFall == [status |-> "fall", value |-> <<>>]
TierRaise == [status |-> "raise", value |-> <<>>]

NoExcept(body) == body

\* try: ... except Exception as e: print(...)
TryExcept(body) == IF body.status = "raise" THEN TierFall ELSE body

OpReturned(value, tiers) == [raised |-> FALSE, value |-> value, tiers |-> tiers]
OpRaised(tiers) == [raised |-> TRUE, value |-> <<>>, tiers |-> tiers]

\* init_llm, called once by main.py's lifespan: the service after startup.
\* genai: the import of google.generativeai worked; gemini_ok, openai_ok:
\* the provider's initialisation did not raise.
init_llm(genai, gemini_key, gemini_ok, openai_key, openai_ok) ==
    [llm |-> IF openai_key /\ openai_ok THEN "ChatOpenAI" ELSE None,
     enabled |-> (genai /\ gemini_key /\ gemini_ok) \/ (openai_key /\ openai_ok)]

\* genai is not None and settings.GEMINI_API_KEY
GeminiConfigured(env) == env.genai /\ env.gemini_key

\* self.enabled and self.llm is not None
OpenAIConfigured(svc) == svc.enabled /\ svc.llm # None

\* for line in lines: ... (lines 367-373)
RECURSIVE ParseLoop(_, _)
ParseLoop(lines, recommendations) ==
    IF lines = <<>> THEN recommendations
    ELSE LET line == Strip(Head(lines))
             clean_line == Strip(LStrip(line, Digits \cup {".", "-", "BULLET", ")", " "}))
         IN  ParseLoop(Tail(lines),
                IF /\ line # <<>>
                   /\ (line[1] \in Digits \/ line[1] = "-" \/ line[1] = "BULLET")
                   /\ clean_line # <<>>
                THEN Append(recommendations, clean_line)
                ELSE recommendations)

ParseRecommendationsUncapped(lines) == ParseLoop(lines, <<>>)

\* _parse_recommendations(llm_response); the response is given split at
\* its newlines, and the last step is recommendations[:5]
parse_recommendations(lines) ==
    LET recommendations == ParseLoop(lines, <<>>)
    IN  SubSeq(recommendations, 1, Min(5, Len(recommendations)))

TypesOf(pii_entities) == {pii_entities[i].type : i \in 1..Len(pii_entities)}

\* _fallback_recommendations(pii_entities, risk_level)
fallback_recommendations(pii_entities, risk_level) ==
    LET entity_types == TypesOf(pii_entities)
        recommendations ==
               (IF "EMAIL_ADDRESS" \in entity_types \/ "PHONE_NUMBER" \in entity_types
                THEN <<"Remove or hide direct contact information.">> ELSE <<>>)
            \o (IF "PERSON" \in entity_types
                THEN <<"Avoid using full real names.">> ELSE <<>>)
            \o (IF "LOCATION" \in entity_types \/ "GPE" \in entity_types
                THEN <<"Replace specific locations with general areas.">> ELSE <<>>)
            \o (IF "DATE" \in entity_types
                THEN <<"Generalize specific dates.">> ELSE <<>>)
            \o (IF risk_level = HIGH
                THEN <<"HIGH RISK: Consider not sharing this information publicly at all.">>
                ELSE <<>>)
    IN  IF recommendations = <<>>
        THEN <<"Your text appears relatively safe.">>
        ELSE recommendations

\* _fallback_rewrite(text, pii_entities) as the tiers see it: one token for
\* the string returned, which is never empty; no step of it raises.  The
\* string itself is _fallback_rewrite below.
fallback_rewrite(pii_entities) == <<"static rewrite">>

\* the final fallback of answer_privacy_question (lines 336-342)
fallback_answer ==
    <<"In general, be careful with sharing government IDs ...", "NL", "NL",
      "This is not legal advice", ".", "NL",
      "This is general educational information, not legal advice."," ",
      "For decisions that could have serious consequences, consult a qualified professional.">>

WithoutDisclaimer(text) == text

\* if "This is not legal advice" not in text: text = text + "\n\nThis is not legal advice."
WithDisclaimer(text) ==
    IF \E i \in 1..Len(text) : text[i] = "This is not legal advice"
    THEN text
    ELSE text \o <<"NL", "NL", "This is not legal advice", ".">>

\* response.text or ""
TextOrEmpty(p) == IF p.kind = "none" THEN <<>> ELSE p.text

\* lines 91-112: the Gemini block of generate_recommendations
GeminiRecommend(p1) ==
    IF p1.kind = "raise" THEN TierRaise
    ELSE IF ~BlankLines(TextOrEmpty(p1))
         THEN TierReturn(parse_recommendations(TextOrEmpty(p1)))
         ELSE TierFall

\* lines 119-145: the OpenAI block; parsing a None content raises
OpenAIRecommend(p2) ==
    IF p2.kind \in {"raise", "none"} THEN TierRaise
    ELSE TierReturn(parse_recommendations(p2.text))

\* lines 172-191
GeminiRewrite(p1) ==
    IF p1.kind = "raise" THEN TierRaise
    ELSE IF Strip(TextOrEmpty(p1)) # <<>>
         THEN TierReturn(Strip(TextOrEmpty(p1)))
         ELSE TierFall

\* lines 198-233
OpenAIRewrite(p2) ==
    IF p2.kind \in {"raise", "none"} THEN TierRaise
    ELSE TierReturn(Strip(p2.text))

\* lines 270-299
GeminiAnswer(p1) ==
    IF p1.kind = "raise" THEN TierRaise
    ELSE IF Strip(TextOrEmpty(p1)) = <<>>
         THEN TierRaise
         ELSE TierReturn(WithDisclaimer(Strip(TextOrEmpty(p1))))

\* lines 306-331
OpenAIAnswer(p2) ==
    IF p2.kind \in {"raise", "none"} THEN TierRaise
    ELSE TierReturn(WithDisclaimer(Strip(p2.text)))

\* The cascade the three operations share: the Gemini block if Gemini is
\* configured, then the OpenAI block if OpenAI is configured, then the
\* final fallback.  t1 and t2 are what the two blocks do, with their
\* exception handlers.
Cascade(useGemini, t1, useOpenAI, t2, fallback) ==
    LET tried1 == IF useGemini THEN <<"P1">> ELSE <<>>
        tried2 == tried1 \o (IF useOpenAI THEN <<"P2">> ELSE <<>>)
    IN  IF useGemini /\ t1.status = "return" THEN OpReturned(t1.value, tried1)
        ELSE IF useGemini /\ t1.status = "raise" THEN OpRaised(tried1)
        ELSE IF useOpenAI /\ t2.status = "return" THEN OpReturned(t2.value, tried2)
        ELSE IF useOpenAI /\ t2.status = "raise" THEN OpRaised(tried2)
        ELSE OpReturned(fallback, tried2 \o <<"static">>)

\* generate_recommendations(text, pii_entities, risk_level)
generate_recommendations(svc, env, pii_entities, risk_level, p1, p2) ==
    Cascade(GeminiConfigured(env), TryExcept(GeminiRecommend(p1)),
            OpenAIConfigured(svc), TryExcept(OpenAIRecommend(p2)),
            fallback_recommendations(pii_entities, risk_level))

\* rewrite_text_safely(text, pii_entities)
rewrite_text_safely(svc, env, pii_entities, p1, p2) ==
    Cascade(GeminiConfigured(env), TryExcept(GeminiRewrite(p1)),
            OpenAIConfigured(svc), TryExcept(OpenAIRewrite(p2)),
            fallback_rewrite(pii_entities))

\* answer_privacy_question(question, locale)
answer_privacy_question(svc, env, p1, p2) ==
    IF ~svc.enabled
    THEN OpReturned(<<"The AI assistant feature is currently disabled ...">>, <<>>)
    ELSE IF svc.llm = None /\ ~(env.genai /\ env.gemini_key)
    THEN OpReturned(<<"The AI assistant is not available.">>, <<>>)
    ELSE Cascade(GeminiConfigured(env), TryExcept(GeminiAnswer(p1)),
                 OpenAIConfigured(svc), TryExcept(OpenAIAnswer(p2)),
                 fallback_answer)

(***************************************************************************)
(* Inputs of the LLM service.                                              *)
(***************************************************************************)
NumberedLine == <<"1", ".", " ", "a">>
PlainLine == <<"a">>

\* responses of up to MaxLines numbered or plain lines, and: whitespace
\* only, a marker with nothing after it, an indented dash, a bullet
RecommendTexts ==
    SeqsUpTo({NumberedLine, PlainLine}, MaxLines)
    \cup {<< <<" ">> >>, << <<"2", ".">> >>, << <<" ", "-", " ", "b">> >>,
          << <<"BULLET", "c">>, <<>> >>}

RewriteTexts == {<<>>, <<" ">>, <<" ", "w", " ">>}

AnswerTexts ==
    {<<>>, <<" ">>, <<"w">>, <<"w", "This is not legal advice", ".">>,
     <<"this is not legal advice", " ", "w">>, <<"This is not legal advice", ",", " ", "w", " ">>}

Outcomes(texts) == {ProviderRaises, ProviderNone} \cup {ProviderText(t) : t \in texts}

LLMTypes == {"EMAIL_ADDRESS", "PHONE_NUMBER", "PERSON", "LOCATION", "GPE", "LOC", "DATE"}

RECURSIVE EntitiesOfTypes(_)
EntitiesOfTypes(types) ==
    IF types = {} THEN <<>>
    ELSE LET t == CHOOSE x \in types : TRUE
         IN  <<PIIEntity(t, 0, 1, 100)>> \o EntitiesOfTypes(types \ {t})

LLMEntityLists == {EntitiesOfTypes(types) : types \in SUBSET LLMTypes}

(***************************************************************************)
(* The LLM service over the life of one process.                           *)
(***************************************************************************)
InitLLM ==
    /\ model_file = "missing"
    /\ startup = model_file
    /\ ml = Initialize(model_file)
    /\ weights = FEATURE_WEIGHTS
    /\ features = Idle
    /\ risk = Idle
    /\ clf = Idle
    /\ nlp_svc = [nlp |-> "spacy", analyzer |-> "AnalyzerEngine"]
    /\ detect_in = Idle
    /\ detect_out = Idle
    /\ \E genai \in BOOLEAN, gemini_key \in BOOLEAN, gemini_ok \in BOOLEAN,
          openai_key \in BOOLEAN, openai_ok \in BOOLEAN :
          /\ llm_env = [genai |-> genai, gemini_key |-> gemini_key]
          /\ llm_svc = init_llm(genai, gemini_key, gemini_ok, openai_key, openai_ok)
    /\ llm_in = Idle
    /\ llm_out = Idle
    /\ feat_in = Idle
    /\ feat_out = Idle
    /\ an_in = Idle
    /\ an_out = Idle
    /\ an_first = Idle
    /\ use_memory = FALSE
    /\ memory_storage = EmptyStorage
    /\ last_id = 0
    /\ db_in = Idle
    /\ db_out = Idle
    /\ tasks = <<>>
    /\ loop = 0

\* the provider calls one operation makes: Gemini if it is configured, and
\* OpenAI if it is configured and the Gemini block t1 fell through
FirstCalls(texts) ==
    IF GeminiConfigured(llm_env) THEN Outcomes(texts) ELSE {NotCalled}

SecondCalls(texts, t1) ==
    IF OpenAIConfigured(llm_svc) /\ (~GeminiConfigured(llm_env) \/ t1.status = "fall")
    THEN Outcomes(texts) ELSE {NotCalled}

\* llm_service.generate_recommendations(...)
Recommend ==
    /\ llm_out = Idle
    /\ \E pii_entities \in LLMEntityLists, risk_level \in RiskLevel :
       \E p1 \in FirstCalls(RecommendTexts) :
       \E p2 \in SecondCalls(RecommendTexts, TryExcept(GeminiRecommend(p1))) :
          /\ llm_in' = [op |-> "recommend", pii_entities |-> pii_entities,
                        risk_level |-> risk_level, p1 |-> p1, p2 |-> p2]
          /\ llm_out' = generate_recommendations(llm_svc, llm_env, pii_entities,
                                                 risk_level, p1, p2)
    /\ UNCHANGED <<featVars, pipeVars, scorerVars, detectVars, llm_env, llm_svc, dbVars, taskVars>>

\* llm_service.rewrite_text_safely(...)
Rewrite ==
    /\ llm_out = Idle
    /\ \E pii_entities \in LLMEntityLists :
       \E p1 \in FirstCalls(RewriteTexts) :
       \E p2 \in SecondCalls(RewriteTexts, TryExcept(GeminiRewrite(p1))) :
          /\ llm_in' = [op |-> "rewrite", pii_entities |-> pii_entities,
                        risk_level |-> None, p1 |-> p1, p2 |-> p2]
          /\ llm_out' = rewrite_text_safely(llm_svc, llm_env, pii_entities, p1, p2)
    /\ UNCHANGED <<featVars, pipeVars, scorerVars, detectVars, llm_env, llm_svc, dbVars, taskVars>>

AnswerRunsCascade ==
    llm_svc.enabled /\ ~(llm_svc.llm = None /\ ~(llm_env.genai /\ llm_env.gemini_key))

\* llm_service.answer_privacy_question(...)
Answer ==
    /\ llm_out = Idle
    /\ \E p1 \in IF AnswerRunsCascade THEN FirstCalls(AnswerTexts) ELSE {NotCalled} :
       \E p2 \in IF AnswerRunsCascade
                 THEN SecondCalls(AnswerTexts, TryExcept(GeminiAnswer(p1)))
                 ELSE {NotCalled} :
          /\ llm_in' = [op |-> "answer", pii_entities |-> <<>>,
                        risk_level |-> None, p1 |-> p1, p2 |-> p2]
          /\ llm_out' = answer_privacy_question(llm_svc, llm_env, p1, p2)
    /\ UNCHANGED <<featVars, pipeVars, scorerVars, detectVars, llm_env, llm_svc, dbVars, taskVars>>

\* the operation returns to its caller
ReturnLLM ==
    /\ llm_out # Idle
    /\ llm_in' = Idle
    /\ llm_out' = Idle
    /\ UNCHANGED <<featVars, pipeVars, scorerVars, detectVars, llm_env, llm_svc, dbVars, taskVars>>

NextLLM == Recommend \/ Rewrite \/ Answer \/ ReturnLLM

SpecLLM == InitLLM /\ [][NextLLM]_vars

(***************************************************************************)
(* The feature stage: NLPService.extract_entity_counts and                 *)
(* detect_sensitive_keywords (app/nlp/pii_detector.py) and                 *)
(* MLService.extract_features (app/ml/risk_scorer.py).                     *)
(*                                                                         *)
(* A text is the sequence of its characters.  An entity type is one of     *)
(* the names the two backends return (settings.PII_ENTITIES and the        *)
(* labels detect_pii admits from spaCy); all are upper case, so .upper()   *)
(* leaves them as they are.                                                *)
(***************************************************************************)
\* most entities of one extract_entity_counts call
MaxTyped == 3

EntityTypes ==
    {"EMAIL_ADDRESS", "PHONE_NUMBER", "LOCATION", "GPE", "LOC", "PERSON",
     "ORGANIZATION", "ORG", "DATE", "URL"}

\* the words of a type name, between its underscores
TypeWords(type) ==
    CASE type = "EMAIL_ADDRESS" -> {"EMAIL", "ADDRESS"}
      [] type = "PHONE_NUMBER" -> {"PHONE", "NUMBER"}
      [] OTHER -> {type}

\* "EMAIL" in entity_type: no word of the names drawn has EMAIL or PHONE
\* as a proper part
TypeContains(type, word) == word \in TypeWords(type)

BucketOfWithoutLOC(type) ==
    IF TypeContains(type, "EMAIL") THEN "num_emails"
    ELSE IF TypeContains(type, "PHONE") THEN "num_phones"
    ELSE IF type \in {"LOCATION", "GPE"} THEN "num_locations"
    ELSE IF type = "PERSON" THEN "num_persons"
    ELSE IF type \in {"ORGANIZATION", "ORG"} THEN "num_organizations"
    ELSE IF type = "DATE" THEN "num_dates"
    ELSE "num_other"

\* the if / elif chain of lines 131-144
BucketOf(type) ==
    IF TypeContains(type, "EMAIL") THEN "num_emails"
    ELSE IF TypeContains(type, "PHONE") THEN "num_phones"
    ELSE IF type \in {"LOCATION", "GPE", "LOC"} THEN "num_locations"
    ELSE IF type = "PERSON" THEN "num_persons"
    ELSE IF type \in {"ORGANIZATION", "ORG"} THEN "num_organizations"
    ELSE IF type = "DATE" THEN "num_dates"
    ELSE "num_other"

\* counts = {...: 0}
ZeroCounts == [b \in BucketNames |-> 0]

\* for entity in entities: ... counts[...] += 1
RECURSIVE CountLoop(_, _)
CountLoop(entities, counts) ==
    IF entities = <<>> THEN counts
    ELSE CountLoop(Tail(entities),
                   [counts EXCEPT ![BucketOf(Head(entities).type)] = @ + 1])

\* extract_entity_counts(entities)
extract_entity_counts(entities) == CountLoop(entities, ZeroCounts)

UpperLetters ==
    <<"A", "B", "C", "D", "E", "F", "G", "H", "I", "J", "K", "L", "M", "N", "O", "P", "Q", "R", "S", "T", "U", "V", "W", "X", "Y", "Z">>

LowerLetters ==
    <<"a", "b", "c", "d", "e", "f", "g", "h", "i", "j", "k", "l", "m", "n", "o", "p", "q", "r", "s", "t", "u", "v", "w", "x", "y", "z">>

\* str.lower(), one character
LowerChar(c) ==
    IF \E i \in 1..26 : UpperLetters[i] = c
    THEN LowerLetters[CHOOSE i \in 1..26 : UpperLetters[i] = c]
    ELSE c

\* text.lower()
Lower(text) == [i \in 1..Len(text) |-> LowerChar(text[i])]

\* the places where keyword occurs in text
Occurrences(keyword, text) ==
    {i \in 1..(Len(text) - Len(keyword) + 1) :
        SubSeq(text, i, i + Len(keyword) - 1) = keyword}

\* keyword in text_lower
Contains(keyword, text) == Occurrences(keyword, text) # {}

SENSITIVE_KEYWORDS ==
    <<<<"p", "a", "s", "s", "w", "o", "r", "d">>,
      <<"s", "s", "n">>,
      <<"s", "o", "c", "i", "a", "l", " ", "s", "e", "c", "u", "r", "i", "t", "y">>,
      <<"c", "r", "e", "d", "i", "t", " ", "c", "a", "r", "d">>,
      <<"b", "a", "n", "k", " ", "a", "c", "c", "o", "u", "n", "t">>,
      <<"r", "o", "u", "t", "i", "n", "g", " ", "n", "u", "m", "b", "e", "r">>,
      <<"p", "a", "s", "s", "p", "o", "r", "t">>,
      <<"l", "i", "c", "e", "n", "s", "e">>,
      <<"m", "e", "d", "i", "c", "a", "l">>,
      <<"d", "i", "a", "g", "n", "o", "s", "i", "s">>,
      <<"t", "h", "e", "r", "a", "p", "y">>,
      <<"s", "a", "l", "a", "r", "y">>,
      <<"i", "n", "c", "o", "m", "e">>,
      <<"a", "d", "d", "r", "e", "s", "s">>,
      <<"h", "o", "m", "e">>,
      <<"l", "i", "v", "e", " ", "a", "t">>>>

RECURSIVE KeywordFrequency(_, _)
KeywordFrequency(keywords, text_lower) ==
    IF keywords = <<>> THEN 0
    ELSE Cardinality(Occurrences(Head(keywords), text_lower))
         + KeywordFrequency(Tail(keywords), text_lower)

\* sum(1 for keyword in keywords if keyword in text_lower)
RECURSIVE KeywordPresence(_, _)
KeywordPresence(keywords, text_lower) ==
    IF keywords = <<>> THEN 0
    ELSE (IF Contains(Head(keywords), text_lower) THEN 1 ELSE 0)
         + KeywordPresence(Tail(keywords), text_lower)

DetectKeywordFrequency(text) == KeywordFrequency(SENSITIVE_KEYWORDS, Lower(text))

\* detect_sensitive_keywords(text)
detect_sensitive_keywords(text) == KeywordPresence(SENSITIVE_KEYWORDS, Lower(text))

(***************************************************************************)
(* Inputs of the feature stage.                                            *)
(***************************************************************************)
TypedEntityLists ==
    {[i \in 1..Len(types) |-> PIIEntity(types[i], i - 1, i, 100)] :
        types \in SeqsUpTo(EntityTypes, MaxTyped)}

\* texts drawn: empty, no keyword, a keyword in upper case, one keyword
\* three times, mixed case, two keywords, a keyword with a blank in it, and
\* a keyword broken by a blank
Texts ==
    {<<>>,
     <<"h", "e", "l", "l", "o", " ", "w", "o", "r", "l", "d">>,
     <<"M", "y", " ", "S", "S", "N">>,
     <<"s", "s", "n", " ", "s", "s", "n", " ", "S", "S", "N">>,
     <<"P", "a", "s", "s", "W", "o", "r", "d">>,
     <<"h", "o", "m", "e", " ", "a", "d", "d", "r", "e", "s", "s">>,
     <<"M", "e", "d", "i", "c", "a", "l", " ", "L", "i", "c", "e", "n", "s", "e">>,
     <<"I", " ", "l", "i", "v", "e", " ", "a", "t", " ", "h", "o", "m", "e">>,
     <<"p", "a", "s", "s", " ", "w", "o", "r", "d">>}

(***************************************************************************)
(* The feature stage over the life of one process (rule-based scorer).     *)
(***************************************************************************)
InitFeatures ==
    /\ model_file = "missing"
    /\ startup = model_file
    /\ ml = Initialize(model_file)
    /\ weights = FEATURE_WEIGHTS
    /\ features = Idle
    /\ risk = Idle
    /\ clf = Idle
    /\ nlp_svc = [nlp |-> "spacy", analyzer |-> "AnalyzerEngine"]
    /\ detect_in = Idle
    /\ detect_out = Idle
    /\ llm_env = [genai |-> TRUE, gemini_key |-> FALSE]
    /\ llm_svc = [llm |-> None, enabled |-> FALSE]
    /\ llm_in = Idle
    /\ llm_out = Idle
    /\ feat_in = Idle
    /\ feat_out = Idle
    /\ an_in = Idle
    /\ an_out = Idle
    /\ an_first = Idle
    /\ use_memory = FALSE
    /\ memory_storage = EmptyStorage
    /\ last_id = 0
    /\ db_in = Idle
    /\ db_out = Idle
    /\ tasks = <<>>
    /\ loop = 0

\* nlp_service.extract_entity_counts(pii_entities)
ExtractEntityCounts ==
    /\ feat_out = Idle
    /\ \E entities \in TypedEntityLists :
          /\ feat_in' = [op |-> "extract_entity_counts", entities |-> entities]
          /\ feat_out' = [entity_counts |-> extract_entity_counts(entities)]
    /\ UNCHANGED <<scorerVars, detectVars, llmVars, pipeVars, dbVars, taskVars>>

\* nlp_service.detect_sensitive_keywords(text)
DetectSensitiveKeywords ==
    /\ feat_out = Idle
    /\ \E text \in Texts :
          /\ feat_in' = [op |-> "detect_sensitive_keywords", text |-> text]
          /\ feat_out' = [sensitive_keywords |-> detect_sensitive_keywords(text)]
    /\ UNCHANGED <<scorerVars, detectVars, llmVars, pipeVars, dbVars, taskVars>>

\* ml_service.extract_features(text, entity_counts, sensitive_keywords) and
\* ml_service.calculate_risk_score(features), the text given by its length
ExtractFeatures ==
    /\ feat_out = Idle
    /\ \E text_length \in TextLengths, entity_counts \in EntityCounts,
          sensitive_keywords \in KeywordCounts :
          /\ feat_in' = [op |-> "extract_features", text_length |-> text_length,
                         entity_counts |-> entity_counts,
                         sensitive_keywords |-> sensitive_keywords]
          /\ feat_out' =
                LET f == extract_features(text_length, entity_counts, sensitive_keywords)
                IN  [features |-> f,
                     risk_score |-> calculate_risk_score(ml, weights, f, 0, <<ProbGrid, 0, 0>>)]
    /\ UNCHANGED <<scorerVars, detectVars, llmVars, pipeVars, dbVars, taskVars>>

\* the call returns
ReturnFeatures ==
    /\ feat_out # Idle
    /\ feat_in' = Idle
    /\ feat_out' = Idle
    /\ UNCHANGED <<scorerVars, detectVars, llmVars, pipeVars, dbVars, taskVars>>

NextFeatures ==
    ExtractEntityCounts \/ DetectSensitiveKeywords \/ ExtractFeatures \/ ReturnFeatures

SpecFeatures == InitFeatures /\ [][NextFeatures]_vars

(***************************************************************************)
(* The scorer under a configured weight table: Settings reads              *)
(* FEATURE_WEIGHTS from the environment (.env), so the table of config.py  *)
(* is only the default.                                                    *)
(***************************************************************************)
\* weight tables drawn: the default (sum 1.00); the default with
\* every weight doubled (sum 2.00); the default without the key
\* text_length, for which the scorer takes 0.1 (sum 1.05); and a table of
\* small weights (sum 0.40)
WeightTables ==
    {FEATURE_WEIGHTS,
     [k \in DOMAIN FEATURE_WEIGHTS |-> 2 * FEATURE_WEIGHTS[k]],
     [k \in DOMAIN FEATURE_WEIGHTS \ {"text_length"} |-> FEATURE_WEIGHTS[k]],
     [k \in DOMAIN FEATURE_WEIGHTS |-> 5]}

InitWeights ==
    /\ model_file \in {"missing", "present"}
    /\ startup = model_file
    /\ ml = Initialize(model_file)
    /\ weights \in WeightTables
    /\ features = Idle
    /\ risk = Idle
    /\ clf = Idle
    /\ nlp_svc = [nlp |-> "spacy", analyzer |-> "AnalyzerEngine"]
    /\ detect_in = Idle
    /\ detect_out = Idle
    /\ llm_env = [genai |-> TRUE, gemini_key |-> FALSE]
    /\ llm_svc = [llm |-> None, enabled |-> FALSE]
    /\ llm_in = Idle
    /\ llm_out = Idle
    /\ feat_in = Idle
    /\ feat_out = Idle
    /\ an_in = Idle
    /\ an_out = Idle
    /\ an_first = Idle
    /\ use_memory = FALSE
    /\ memory_storage = EmptyStorage
    /\ last_id = 0
    /\ db_in = Idle
    /\ db_out = Idle
    /\ tasks = <<>>
    /\ loop = 0

SpecWeights == InitWeights /\ [][NextScorer]_vars

(***************************************************************************)
(* app/api/routes/analysis.py: analyze_text, the handler of                *)
(* POST /analyze-text.                                                     *)
(*                                                                         *)
(* A request text is [body, pad]: the characters of body followed by pad   *)
(* periods (a character no keyword has).  A request carries, besides its   *)
(* three fields, what the collaborators do while it is handled: the two    *)
(* backends (a, b), the classifier (prediction, probabilities), the        *)
(* providers in generate_recommendations (rec_p1, rec_p2) and in           *)
(* rewrite_text_safely (rw_p1, rw_p2), the MongoDB collection when it is   *)
(* the store (insert_ok), and ObjectId() (object_id).                      *)
(***************************************************************************)
\* len(request.text)
TextLen(text) == Len(text.body) + text.pad

\* AnalyzeTextRequest.text: min_length=10, max_length=10000
ValidRequest(text) == 10 <= TextLen(text) /\ TextLen(text) <= 10000

Absent == [absent |-> TRUE]
Present(value) == [absent |-> FALSE, value |-> value]

RewriteWantedByFlag(include_rewrite, pii_entities) == include_rewrite

\* if request.include_rewrite and len(pii_entities) > 0
RewriteWanted(include_rewrite, pii_entities) ==
    include_rewrite /\ Len(pii_entities) > 0

ReloadedService(svc, file) == Initialize(file)

\* ml_service is the instance built when risk_scorer.py is imported; a
\* request uses it as it is, whatever is on disk by then
ServiceAtRequest(svc, file) == svc

\* most ObjectId() values the process generates
MaxIds == 2

MemoryInsertAtFront(storage, collection, document) ==
    [storage EXCEPT ![collection] = <<document>> \o @]

\* memory_insert_one(collection, document): appended to the collection
memory_insert_one(storage, collection, document) ==
    [storage EXCEPT ![collection] = Append(@, document)]

\* memory_find_one(collection, {key: value}): the first document of the
\* collection, in the order of the list, whose key has the value
memory_find_one(storage, collection, key, value) ==
    LET docs == storage[collection]
        RECURSIVE Loop(_)
        Loop(i) ==
            IF i > Len(docs) THEN Absent
            ELSE IF docs[i][key] = value THEN Present(docs[i])
            ELSE Loop(i + 1)
    IN  Loop(1)

\* memory_find(collection, {key: value}): every document whose key has the
\* value, in the order of the list (no sort, fewer than the limit)
memory_find(storage, collection, key, value) ==
    LET Matches(doc) == doc[key] = value
    IN  SelectSeq(storage[collection], Matches)

MemoryDeleteOldest(storage, collection, key, value) ==
    LET docs == storage[collection]
    IN  IF \E i \in 1..Len(docs) : docs[i][key] = value
        THEN [storage |-> [storage EXCEPT ![collection] = Tail(docs)], deleted_count |-> 1]
        ELSE [storage |-> storage, deleted_count |-> 0]

\* memory_delete_one(collection, {key: value}): pop(i) at the first match
\* and 1, or 0; the result is [storage, deleted_count]
memory_delete_one(storage, collection, key, value) ==
    LET docs == storage[collection]
        RECURSIVE Loop(_)
        Loop(i) ==
            IF i > Len(docs) THEN [storage |-> storage, deleted_count |-> 0]
            ELSE IF docs[i][key] = value
            THEN [storage |-> [storage EXCEPT ![collection] =
                                  SubSeq(docs, 1, i - 1) \o SubSeq(docs, i + 1, Len(docs))],
                  deleted_count |-> 1]
            ELSE Loop(i + 1)
    IN  Loop(1)

\* analysis_doc (lines 166-177), without the clock's fields
AnalysisDoc(req, resp) ==
    [_id |-> resp.analysis_id, input_text |-> req.text,
     pii_entities |-> resp.pii_entities, features |-> resp.features,
     risk_score |-> resp.risk_score, recommendations |-> resp.recommendations,
     safe_rewrite |-> resp.safe_rewrite]

\* the response: 422 from the request validation, 500 from the handler's
\* except clause, 200 with the AnalysisResult.  calls lists the stages the
\* handler entered, rewrite_tiers the tiers rewrite_text_safely tried,
\* analysis_id is the id of the AnalysisResult (0 when there is none).
Response(status, calls, pii_entities, f, risk_score, recommendations, safe_rewrite, rewrite_tiers, analysis_id) ==
    [status |-> status, calls |-> calls, pii_entities |-> pii_entities,
     features |-> f, risk_score |-> risk_score,
     recommendations |-> recommendations, safe_rewrite |-> safe_rewrite,
     rewrite_tiers |-> rewrite_tiers, analysis_id |-> analysis_id]

\* analyze_text(request)
analyze_text(nlp, scorer, file, w, llm, env, req) ==
    LET det == detect_pii(nlp, req.a, req.b)
        pii_entities == det.entities
        entity_counts == extract_entity_counts(pii_entities)
        sensitive_keywords == detect_sensitive_keywords(req.text.body)
        f == extract_features(TextLen(req.text), entity_counts, sensitive_keywords)
        risk_score == calculate_risk_score(ServiceAtRequest(scorer, file), w, f,
                                           req.prediction, req.probabilities)
        rec == IF req.include_recommendations
               THEN generate_recommendations(llm, env, pii_entities, risk_score.level,
                                             req.rec_p1, req.rec_p2)
               ELSE OpReturned(<<>>, <<>>)
        wanted == RewriteWanted(req.include_rewrite, pii_entities)
        rw == IF wanted
              THEN rewrite_text_safely(llm, env, pii_entities, req.rw_p1, req.rw_p2)
              ELSE OpReturned(<<>>, <<>>)
        scored == <<"detect_pii", "extract_entity_counts", "detect_sensitive_keywords",
                    "extract_features", "calculate_risk_score">>
        recommended == scored
            \o (IF req.include_recommendations THEN <<"generate_recommendations">> ELSE <<>>)
        rewritten == recommended \o (IF wanted THEN <<"rewrite_text_safely">> ELSE <<>>)
    IN  IF ~ValidRequest(req.text)
        THEN Response(422, <<>>, <<>>, Idle, Idle, <<>>, Absent, <<>>, 0)
        ELSE IF det.raised
        THEN Response(500, <<"detect_pii">>, <<>>, Idle, Idle, <<>>, Absent, <<>>, 0)
        ELSE IF ~IsRiskScore(risk_score)
        THEN Response(500, scored, pii_entities, f, risk_score, <<>>, Absent, <<>>, 0)
        ELSE IF rec.raised
        THEN Response(500, recommended, pii_entities, f, risk_score, <<>>, Absent, <<>>, 0)
        ELSE IF rw.raised
        THEN Response(500, rewritten, pii_entities, f, risk_score, rec.value, Absent, rw.tiers, 0)
        ELSE Response(IF req.insert_ok THEN 200 ELSE 500,
                      rewritten \o <<"insert_one">>, pii_entities, f, risk_score, rec.value,
                      IF wanted THEN Present(rw.value) ELSE Absent, rw.tiers,
                      IF req.insert_ok THEN req.object_id ELSE 0)

\* analyze_profile_risk(request): the same stages on the demo profile
\* text, which no length check guards; nothing is stored
analyze_profile_risk(nlp, scorer, file, w, llm, env, req) ==
    LET det == detect_pii(nlp, req.a, req.b)
        pii_entities == det.entities
        entity_counts == extract_entity_counts(pii_entities)
        sensitive_keywords == detect_sensitive_keywords(req.text.body)
        f == extract_features(TextLen(req.text), entity_counts, sensitive_keywords)
        risk_score == calculate_risk_score(ServiceAtRequest(scorer, file), w, f,
                                           req.prediction, req.probabilities)
        rec == IF req.include_recommendations
               THEN generate_recommendations(llm, env, pii_entities, risk_score.level,
                                             req.rec_p1, req.rec_p2)
               ELSE OpReturned(<<>>, <<>>)
        wanted == RewriteWanted(req.include_rewrite, pii_entities)
        rw == IF wanted
              THEN rewrite_text_safely(llm, env, pii_entities, req.rw_p1, req.rw_p2)
              ELSE OpReturned(<<>>, <<>>)
        scored == <<"detect_pii", "extract_entity_counts", "detect_sensitive_keywords",
                    "extract_features", "calculate_risk_score">>
        recommended == scored
            \o (IF req.include_recommendations THEN <<"generate_recommendations">> ELSE <<>>)
        rewritten == recommended \o (IF wanted THEN <<"rewrite_text_safely">> ELSE <<>>)
    IN  IF det.raised
        THEN Response(500, <<"detect_pii">>, <<>>, Idle, Idle, <<>>, Absent, <<>>, 0)
        ELSE IF ~IsRiskScore(risk_score)
        THEN Response(500, scored, pii_entities, f, risk_score, <<>>, Absent, <<>>, 0)
        ELSE IF rec.raised
        THEN Response(500, recommended, pii_entities, f, risk_score, <<>>, Absent, <<>>, 0)
        ELSE IF rw.raised
        THEN Response(500, rewritten, pii_entities, f, risk_score, rec.value, Absent, rw.tiers, 0)
        ELSE Response(200, rewritten, pii_entities, f, risk_score, rec.value,
                      IF wanted THEN Present(rw.value) ELSE Absent, rw.tiers, 0)

(***************************************************************************)
(* Inputs of the handler.                                                  *)
(***************************************************************************)
\* texts of 9 characters (too short), 10 (the minimum), 1000, and more
\* than 10000 (too long); bodies with no, one and two keywords
RequestTexts ==
    {[body |-> body, pad |-> pad] :
        body \in {<<"h", "e", "l", "l", "o", " ", "w", "o", "r", "l", "d">>,
                  <<"M", "y", " ", "S", "S", "N">>,
                  <<"h", "o", "m", "e", " ", "a", "d", "d", "r", "e", "s", "s">>},
        pad \in {3, 4, 989, 9995}}

EmailAt0 == [entity_type |-> "EMAIL_ADDRESS", start |-> 0, end |-> 2, score |-> 100]
UrlAt1 == [entity_type |-> "URL", start |-> 1, end |-> 2, score |-> 100]
PersonAt0 == [label_ |-> "PERSON", start_char |-> 0, end_char |-> 2]

\* what the two backends do: find nothing; Backend A finds an e-mail
\* address; both find the same span; Backend A finds a URL and Backend B a
\* person; either backend raises in the call
RequestDetections ==
    {[a |-> BackendReturns(<<>>), b |-> BackendReturns(<<>>)],
     [a |-> BackendReturns(<<EmailAt0>>), b |-> BackendReturns(<<>>)],
     [a |-> BackendReturns(<<EmailAt0>>), b |-> BackendReturns(<<PersonAt0>>)],
     [a |-> BackendReturns(<<UrlAt1>>), b |-> BackendReturns(<<PersonAt0>>)],
     [a |-> BackendRaises, b |-> BackendReturns(<<PersonAt0>>)],
     [a |-> BackendReturns(<<EmailAt0>>), b |-> BackendRaises]}

RequestRecommendTexts == {<<NumberedLine>>, <<PlainLine>>}

RequestRewriteTexts == {<<>>, <<"w">>}

\* what the classifier answers, when there is one
ClassifierAnswers ==
    IF ml.model # None /\ ml.model_type = "trained"
    THEN {[prediction |-> 0, probabilities |-> <<ProbGrid, 0, 0>>],
          [prediction |-> 2, probabilities |-> <<0, 1, ProbGrid - 1>>]}
    ELSE {[prediction |-> 0, probabilities |-> <<ProbGrid, 0, 0>>]}

(***************************************************************************)
(* The handler over the life of one process.                               *)
(***************************************************************************)
InitAnalyze ==
    /\ model_file \in {"missing", "present"}
    /\ startup = model_file
    /\ ml = Initialize(model_file)
    /\ weights = FEATURE_WEIGHTS
    /\ features = Idle
    /\ risk = Idle
    /\ clf = Idle
    /\ nlp_svc = [nlp |-> "spacy", analyzer |-> "AnalyzerEngine"]
    /\ detect_in = Idle
    /\ detect_out = Idle
    /\ \E gemini_key \in BOOLEAN, openai_key \in BOOLEAN :
          /\ llm_env = [genai |-> TRUE, gemini_key |-> gemini_key]
          /\ llm_svc = init_llm(TRUE, gemini_key, TRUE, openai_key, TRUE)
    /\ llm_in = Idle
    /\ llm_out = Idle
    /\ feat_in = Idle
    /\ feat_out = Idle
    /\ an_in = Idle
    /\ an_out = Idle
    /\ an_first = Idle
    /\ use_memory = FALSE
    /\ memory_storage = EmptyStorage
    /\ last_id = 0
    /\ db_in = Idle
    /\ db_out = Idle
    /\ tasks = <<>>
    /\ loop = 0

\* the provider calls a stage of the request makes, when the handler
\* reaches the stage (reached) and the request asks for it
StageFirstCalls(reached, texts) ==
    IF reached THEN FirstCalls(texts) ELSE {NotCalled}

StageSecondCalls(reached, texts, t1) ==
    IF reached THEN SecondCalls(texts, t1) ELSE {NotCalled}

\* POST /analyze-text
AnalyzeText(texts, detections, inserts) ==
    /\ an_out = Idle
    /\ last_id < MaxIds
    /\ \E text \in texts, d \in detections,
          include_recommendations \in BOOLEAN, include_rewrite \in BOOLEAN,
          c \in ClassifierAnswers,
          insert_ok \in (IF use_memory THEN {TRUE} ELSE inserts) :
       LET scored == ValidRequest(text) /\ ~detect_pii(nlp_svc, d.a, d.b).raised
           recommends == scored /\ include_recommendations
           rewrites == scored /\ RewriteWanted(include_rewrite,
                                               detect_pii(nlp_svc, d.a, d.b).entities)
       IN  \E rec_p1 \in StageFirstCalls(recommends, RequestRecommendTexts) :
           \E rec_p2 \in StageSecondCalls(recommends, RequestRecommendTexts,
                                          TryExcept(GeminiRecommend(rec_p1))) :
           \E rw_p1 \in StageFirstCalls(rewrites, RequestRewriteTexts) :
           \E rw_p2 \in StageSecondCalls(rewrites, RequestRewriteTexts,
                                         TryExcept(GeminiRewrite(rw_p1))) :
              LET req == [route |-> "/analyze-text", text |-> text,
                          include_recommendations |-> include_recommendations,
                          include_rewrite |-> include_rewrite, a |-> d.a, b |-> d.b,
                          prediction |-> c.prediction, probabilities |-> c.probabilities,
                          rec_p1 |-> rec_p1, rec_p2 |-> rec_p2,
                          rw_p1 |-> rw_p1, rw_p2 |-> rw_p2, insert_ok |-> insert_ok,
                          object_id |-> last_id + 1]
              IN  /\ an_in' = req
                  /\ an_out' = analyze_text(nlp_svc, ml, model_file, weights,
                                            llm_svc, llm_env, req)
                  \* the handler reached analysis_id = str(ObjectId())
                  /\ last_id' = IF an_out'.status # 422
                                    /\ an_out'.calls[Len(an_out'.calls)] = "insert_one"
                                 THEN last_id + 1 ELSE last_id
                  /\ memory_storage' =
                        IF last_id' # last_id /\ use_memory
                        THEN memory_insert_one(memory_storage, "analysis_results",
                                               AnalysisDoc(req, an_out'))
                        ELSE memory_storage
    /\ UNCHANGED <<scorerVars, detectVars, llmVars, featVars, an_first,
                   use_memory, db_in, db_out, taskVars>>

\* _fetch_profile_text: the demo text of about 140 characters around the
\* identifier of the request
ProfileTexts ==
    {[body |-> identifier, pad |-> 140] :
        identifier \in {<<"M", "y", " ", "S", "S", "N">>,
                        <<"h", "e", "l", "l", "o", " ", "w", "o", "r", "l", "d">>}}

\* POST /profile-risk
AnalyzeProfileRisk ==
    /\ an_out = Idle
    /\ \E text \in ProfileTexts, d \in RequestDetections,
          include_recommendations \in BOOLEAN, include_rewrite \in BOOLEAN,
          c \in ClassifierAnswers :
       LET scored == ~detect_pii(nlp_svc, d.a, d.b).raised
           recommends == scored /\ include_recommendations
           rewrites == scored /\ RewriteWanted(include_rewrite,
                                               detect_pii(nlp_svc, d.a, d.b).entities)
       IN  \E rec_p1 \in StageFirstCalls(recommends, RequestRecommendTexts) :
           \E rec_p2 \in StageSecondCalls(recommends, RequestRecommendTexts,
                                          TryExcept(GeminiRecommend(rec_p1))) :
           \E rw_p1 \in StageFirstCalls(rewrites, RequestRewriteTexts) :
           \E rw_p2 \in StageSecondCalls(rewrites, RequestRewriteTexts,
                                         TryExcept(GeminiRewrite(rw_p1))) :
              LET req == [route |-> "/profile-risk", text |-> text,
                          include_recommendations |-> include_recommendations,
                          include_rewrite |-> include_rewrite, a |-> d.a, b |-> d.b,
                          prediction |-> c.prediction, probabilities |-> c.probabilities,
                          rec_p1 |-> rec_p1, rec_p2 |-> rec_p2,
                          rw_p1 |-> rw_p1, rw_p2 |-> rw_p2, insert_ok |-> TRUE,
                          object_id |-> 0]
              IN  /\ an_in' = req
                  /\ an_out' = analyze_profile_risk(nlp_svc, ml, model_file, weights,
                                                    llm_svc, llm_env, req)
    /\ UNCHANGED <<scorerVars, detectVars, llmVars, featVars, an_first, dbVars, taskVars>>

\* the response is sent
ReturnAnalysis ==
    /\ an_out # Idle
    /\ an_in' = Idle
    /\ an_out' = Idle
    /\ UNCHANGED <<scorerVars, detectVars, llmVars, featVars, an_first, dbVars, taskVars>>

NextAnalyze ==
    \/ AnalyzeText(RequestTexts, RequestDetections, BOOLEAN)
    \/ AnalyzeProfileRisk
    \/ ReturnAnalysis

SpecAnalyze == InitAnalyze /\ [][NextAnalyze]_vars

(***************************************************************************)
(* Repeated requests: one earlier request of the process and its response  *)
(* are kept in an_first, other requests and a training run come between.   *)
(***************************************************************************)
RepeatTexts ==
    {[body |-> body, pad |-> pad] :
        body \in {<<"h", "e", "l", "l", "o", " ", "w", "o", "r", "l", "d">>,
                  <<"M", "y", " ", "S", "S", "N">>},
        pad \in {4, 989}}

RepeatDetections ==
    {[a |-> BackendReturns(<<>>), b |-> BackendReturns(<<>>)],
     [a |-> BackendReturns(<<EmailAt0>>), b |-> BackendReturns(<<PersonAt0>>)],
     [a |-> BackendReturns(<<UrlAt1>>), b |-> BackendReturns(<<PersonAt0>>)]}

InitRepeat ==
    /\ model_file \in {"missing", "corrupt_scaler"}
    /\ startup = model_file
    /\ ml = Initialize(model_file)
    /\ weights = FEATURE_WEIGHTS
    /\ features = Idle
    /\ risk = Idle
    /\ clf = Idle
    /\ nlp_svc = [nlp |-> "spacy", analyzer |-> "AnalyzerEngine"]
    /\ detect_in = Idle
    /\ detect_out = Idle
    /\ \E gemini_key \in BOOLEAN :
          /\ llm_env = [genai |-> TRUE, gemini_key |-> gemini_key]
          /\ llm_svc = init_llm(TRUE, gemini_key, TRUE, FALSE, TRUE)
    /\ llm_in = Idle
    /\ llm_out = Idle
    /\ feat_in = Idle
    /\ feat_out = Idle
    /\ an_in = Idle
    /\ an_out = Idle
    /\ an_first = Idle
    /\ use_memory = FALSE
    /\ memory_storage = EmptyStorage
    /\ last_id = 0
    /\ db_in = Idle
    /\ db_out = Idle
    /\ tasks = <<>>
    /\ loop = 0

\* the request being answered is the one kept for comparison
KeepFirst ==
    /\ an_out # Idle
    /\ an_first = Idle
    /\ an_first' = [req |-> an_in, resp |-> an_out]
    /\ UNCHANGED <<scorerVars, detectVars, llmVars, featVars, an_in, an_out, dbVars, taskVars>>

NextRepeat ==
    \/ AnalyzeText(RepeatTexts, RepeatDetections, {TRUE})
    \/ ReturnAnalysis
    \/ KeepFirst
    \/ SaveModels

SpecRepeat == InitRepeat /\ [][NextRepeat]_vars

(***************************************************************************)
(* The store routes of analysis.py over the in-memory store (and, when    *)
(* MongoDB is connected, over a collection that answers as it likes).     *)
(***************************************************************************)
\* a text of 9 characters (refused) and one of 10
StoreTexts ==
    {[body |-> <<"M", "y", " ", "S", "S", "N">>, pad |-> pad] : pad \in {3, 4}}

StoreDetections ==
    {[a |-> BackendReturns(<<>>), b |-> BackendReturns(<<>>)],
     [a |-> BackendReturns(<<EmailAt0>>), b |-> BackendReturns(<<PersonAt0>>)],
     [a |-> BackendRaises, b |-> BackendReturns(<<PersonAt0>>)]}

\* connect_to_mongo: no URL or no connection gives the in-memory store;
\* no provider is configured
InitStore ==
    /\ model_file = "missing"
    /\ startup = model_file
    /\ ml = Initialize(model_file)
    /\ weights = FEATURE_WEIGHTS
    /\ features = Idle
    /\ risk = Idle
    /\ clf = Idle
    /\ nlp_svc = [nlp |-> "spacy", analyzer |-> "AnalyzerEngine"]
    /\ detect_in = Idle
    /\ detect_out = Idle
    /\ llm_env = [genai |-> TRUE, gemini_key |-> FALSE]
    /\ llm_svc = init_llm(TRUE, FALSE, TRUE, FALSE, TRUE)
    /\ llm_in = Idle
    /\ llm_out = Idle
    /\ feat_in = Idle
    /\ feat_out = Idle
    /\ an_in = Idle
    /\ an_out = Idle
    /\ an_first = Idle
    /\ use_memory \in BOOLEAN
    /\ memory_storage = EmptyStorage
    /\ last_id = 0
    /\ db_in = Idle
    /\ db_out = Idle
    /\ tasks = <<>>
    /\ loop = 0

\* GET /risk-report/{analysis_id}
GetRiskReport ==
    /\ db_out = Idle
    /\ \E analysis_id \in 1..MaxIds, mongo_finds \in BOOLEAN :
       LET result == IF use_memory
                     THEN memory_find_one(memory_storage, "analysis_results",
                                          "_id", analysis_id)
                     ELSE IF mongo_finds THEN Present([_id |-> analysis_id])
                     ELSE Absent
       IN  /\ use_memory => mongo_finds
           /\ db_in' = [route |-> "/risk-report", analysis_id |-> analysis_id]
           /\ db_out' = [status |-> IF result = Absent THEN 404 ELSE 200,
                         result |-> result, deleted_count |-> 0]
    /\ UNCHANGED <<scorerVars, detectVars, llmVars, featVars, pipeVars,
                   use_memory, memory_storage, last_id, taskVars>>

\* DELETE /analysis/{analysis_id}
DeleteAnalysis ==
    /\ db_out = Idle
    /\ \E analysis_id \in 1..MaxIds, mongo_deleted \in {0, 1} :
       LET deleted == memory_delete_one(memory_storage, "analysis_results",
                                        "_id", analysis_id)
           deleted_count == IF use_memory THEN deleted.deleted_count ELSE mongo_deleted
       IN  /\ use_memory => mongo_deleted = 0
           /\ db_in' = [route |-> "/analysis", analysis_id |-> analysis_id]
           /\ db_out' = [status |-> IF deleted_count = 0 THEN 404 ELSE 200,
                         result |-> Absent, deleted_count |-> deleted_count]
           /\ memory_storage' = IF use_memory THEN deleted.storage ELSE memory_storage
    /\ UNCHANGED <<scorerVars, detectVars, llmVars, featVars, pipeVars,
                   use_memory, last_id, taskVars>>

\* the response of the store route is sent
ReturnStore ==
    /\ db_out # Idle
    /\ db_in' = Idle
    /\ db_out' = Idle
    /\ UNCHANGED <<scorerVars, detectVars, llmVars, featVars, pipeVars,
                   use_memory, memory_storage, last_id, taskVars>>

NextStore ==
    \/ AnalyzeText(StoreTexts, StoreDetections, BOOLEAN)
    \/ ReturnAnalysis
    \/ GetRiskReport
    \/ DeleteAnalysis
    \/ ReturnStore

SpecStore == InitStore /\ [][NextStore]_vars

(***************************************************************************)
(* app/api/routes/auth.py: register, as coroutines on one event loop.      *)
(*                                                                         *)
(* A coroutine runs until an await suspends it; only then may another one  *)
(* run.  loop is the client whose coroutine is running (between two of its *)
(* steps), 0 when the loop is free.                                        *)
(***************************************************************************)
\* most register requests in flight
MaxClients == 2

Clients == 1..MaxClients

Emails == {"a@x.org", "b@x.org"}

NoTask == [pc |-> "idle", email |-> None, status |-> 0, detail |-> None]

SuspendsAtEveryAwait(awaited) == TRUE

\* whether awaiting this coroutine gives the event loop away: memory_find
\* and memory_insert_one are async functions that await nothing
Suspends(awaited) == FALSE

\* get_user_by_email(email) over the in-memory store: users[0] of
\* memory_find("users", {"email": email}), or None
get_user_by_email(storage, email) ==
    LET users == memory_find(storage, "users", "email", email)
    IN  IF Len(users) > 0 THEN Present(users[1]) ELSE Absent

\* user_data of create_user (lines 62-69), without the hash and the clock
UserData(user_id, email) == [user_id |-> user_id, email |-> email, is_active |-> TRUE]

InitRegister ==
    /\ model_file = "missing"
    /\ startup = model_file
    /\ ml = Initialize(model_file)
    /\ weights = FEATURE_WEIGHTS
    /\ features = Idle
    /\ risk = Idle
    /\ clf = Idle
    /\ nlp_svc = [nlp |-> "spacy", analyzer |-> "AnalyzerEngine"]
    /\ detect_in = Idle
    /\ detect_out = Idle
    /\ llm_env = [genai |-> TRUE, gemini_key |-> FALSE]
    /\ llm_svc = init_llm(TRUE, FALSE, TRUE, FALSE, TRUE)
    /\ llm_in = Idle
    /\ llm_out = Idle
    /\ feat_in = Idle
    /\ feat_out = Idle
    /\ an_in = Idle
    /\ an_out = Idle
    /\ an_first = Idle
    /\ use_memory \in BOOLEAN
    /\ memory_storage = EmptyStorage
    /\ last_id = 0
    /\ db_in = Idle
    /\ db_out = Idle
    /\ tasks = [c \in Clients |-> NoTask]
    /\ loop = 0

\* POST /register arrives: the handler's coroutine is created
RegisterArrives(c) ==
    /\ tasks[c].pc = "idle"
    /\ last_id + Cardinality({d \in Clients : tasks[d].pc \in {"find", "create"}}) < MaxIds
    /\ \E email \in Emails :
          tasks' = [tasks EXCEPT ![c] = [NoTask EXCEPT !.pc = "find", !.email = email]]
    /\ UNCHANGED <<scorerVars, detectVars, llmVars, featVars, pipeVars, dbVars, loop>>

\* lines 99-104: existing_user = await get_user_by_email(request.email).
\* Over MongoDB the helper does `await get_database()` on a function that
\* returns the database object, not a coroutine: TypeError, which register
\* does not catch (500).
RegisterFind(c) ==
    /\ tasks[c].pc = "find"
    /\ loop \in {0, c}
    /\ IF ~use_memory
       THEN /\ tasks' = [tasks EXCEPT ![c].pc = "done", ![c].status = 500,
                                      ![c].detail = "TypeError"]
            /\ loop' = 0
       ELSE IF get_user_by_email(memory_storage, tasks[c].email) # Absent
       THEN /\ tasks' = [tasks EXCEPT ![c].pc = "done", ![c].status = 400,
                                      ![c].detail = "Email already registered"]
            /\ loop' = 0
       ELSE /\ tasks' = [tasks EXCEPT ![c].pc = "create"]
            /\ loop' = IF Suspends("memory_find") THEN 0 ELSE c
    /\ UNCHANGED <<scorerVars, detectVars, llmVars, featVars, pipeVars, dbVars>>

\* lines 107-131: user = await create_user(...), then the token and the
\* response (201)
RegisterCreate(c) ==
    /\ tasks[c].pc = "create"
    /\ loop \in {0, c}
    /\ last_id' = last_id + 1
    /\ memory_storage' = memory_insert_one(memory_storage, "users",
                                           UserData(last_id + 1, tasks[c].email))
    /\ tasks' = [tasks EXCEPT ![c].pc = "done", ![c].status = 201]
    /\ loop' = 0
    /\ UNCHANGED <<scorerVars, detectVars, llmVars, featVars, pipeVars,
                   use_memory, db_in, db_out>>

\* the response is sent
RegisterReturns(c) ==
    /\ tasks[c].pc = "done"
    /\ tasks' = [tasks EXCEPT ![c] = NoTask]
    /\ UNCHANGED <<scorerVars, detectVars, llmVars, featVars, pipeVars, dbVars, loop>>

NextRegister ==
    \E c \in Clients :
        \/ RegisterArrives(c)
        \/ RegisterFind(c)
        \/ RegisterCreate(c)
        \/ RegisterReturns(c)

SpecRegister == InitRegister /\ [][NextRegister]_vars

(***************************************************************************)
(* analyze_text under concurrent requests.  Each request in flight keeps   *)
(* its own locals (tasks[r]); the singletons, the settings and the store   *)
(* are shared.  Every stage boundary is taken as a point where another     *)
(* request may run, which includes every schedule of the event loop.       *)
(***************************************************************************)
InitConcurrent ==
    /\ model_file \in {"missing", "present"}
    /\ startup = model_file
    /\ ml = Initialize(model_file)
    /\ weights = FEATURE_WEIGHTS
    /\ features = Idle
    /\ risk = Idle
    /\ clf = Idle
    /\ nlp_svc = [nlp |-> "spacy", analyzer |-> "AnalyzerEngine"]
    /\ detect_in = Idle
    /\ detect_out = Idle
    /\ llm_env = [genai |-> TRUE, gemini_key |-> FALSE]
    /\ llm_svc = init_llm(TRUE, FALSE, TRUE, FALSE, TRUE)
    /\ llm_in = Idle
    /\ llm_out = Idle
    /\ feat_in = Idle
    /\ feat_out = Idle
    /\ an_in = Idle
    /\ an_out = Idle
    /\ an_first = Idle
    /\ use_memory = TRUE
    /\ memory_storage = EmptyStorage
    /\ last_id = 0
    /\ db_in = Idle
    /\ db_out = Idle
    /\ tasks = [r \in Clients |-> Idle]
    /\ loop = 0

\* request r is in flight and its handler is at this stage
AtStage(r, pc) == tasks[r] # Idle /\ tasks[r].pc = pc

\* the request is validated (422) and the handler starts
AnalysisArrives(r) ==
    /\ tasks[r] = Idle
    /\ last_id + Cardinality({q \in Clients : tasks[q] # Idle /\ tasks[q].pc # "done"}) < MaxIds
    /\ \E text \in StoreTexts, d \in StoreDetections, c \in ClassifierAnswers :
          tasks' = [tasks EXCEPT ![r] =
                      [pc |-> IF ValidRequest(text) THEN "detect_pii" ELSE "done",
                       status |-> IF ValidRequest(text) THEN 0 ELSE 422,
                       req |-> [route |-> "/analyze-text", text |-> text,
                                include_recommendations |-> FALSE,
                                include_rewrite |-> FALSE, a |-> d.a, b |-> d.b,
                                prediction |-> c.prediction,
                                probabilities |-> c.probabilities,
                                rec_p1 |-> NotCalled, rec_p2 |-> NotCalled,
                                rw_p1 |-> NotCalled, rw_p2 |-> NotCalled,
                                insert_ok |-> TRUE, object_id |-> 0],
                       pii_entities |-> <<>>, features |-> Idle, risk_score |-> Idle]]
    /\ UNCHANGED <<scorerVars, detectVars, llmVars, featVars, pipeVars, dbVars, loop>>

\* line 128: pii_entities = nlp_service.detect_pii(request.text)
DetectStage(r) ==
    /\ AtStage(r, "detect_pii")
    /\ LET det == detect_pii(nlp_svc, tasks[r].req.a, tasks[r].req.b)
       IN  tasks' = [tasks EXCEPT ![r].pc = IF det.raised THEN "done" ELSE "extract_features",
                                  ![r].status = IF det.raised THEN 500 ELSE 0,
                                  ![r].pii_entities = det.entities]
    /\ UNCHANGED <<scorerVars, detectVars, llmVars, featVars, pipeVars, dbVars, loop>>

\* lines 129-137: the counts, the keywords and the Features
FeatureStage(r) ==
    /\ AtStage(r, "extract_features")
    /\ tasks' = [tasks EXCEPT ![r].pc = "calculate_risk_score",
                              ![r].features =
                                  extract_features(
                                      TextLen(tasks[r].req.text),
                                      extract_entity_counts(tasks[r].pii_entities),
                                      detect_sensitive_keywords(tasks[r].req.text.body))]
    /\ UNCHANGED <<scorerVars, detectVars, llmVars, featVars, pipeVars, dbVars, loop>>

ScoreStageReloading(r) ==
    /\ AtStage(r, "calculate_risk_score")
    /\ ml' = Initialize(model_file)
    /\ tasks' = [tasks EXCEPT ![r].pc = "insert_one",
                              ![r].risk_score =
                                  calculate_risk_score(ml', weights, tasks[r].features,
                                                       tasks[r].req.prediction,
                                                       tasks[r].req.probabilities)]
    /\ UNCHANGED <<model_file, startup, weights, features, risk, clf, detectVars, llmVars,
                   featVars, pipeVars, dbVars, loop>>

\* line 140: risk_score = ml_service.calculate_risk_score(features)
ScoreStage(r) ==
    /\ AtStage(r, "calculate_risk_score")
    /\ tasks' = [tasks EXCEPT ![r].pc = "insert_one",
                              ![r].risk_score =
                                  calculate_risk_score(ServiceAtRequest(ml, model_file),
                                                       weights, tasks[r].features,
                                                       tasks[r].req.prediction,
                                                       tasks[r].req.probabilities)]
    /\ UNCHANGED <<scorerVars, detectVars, llmVars, featVars, pipeVars, dbVars, loop>>

\* lines 143-197 of a request that asks for no recommendation and no
\* rewrite: the id, the document, the insert and the result; a risk score
\* that failed its validation has raised at line 140 (500)
InsertStage(r) ==
    /\ AtStage(r, "insert_one")
    /\ IF IsRiskScore(tasks[r].risk_score)
       THEN LET resp == [analysis_id |-> last_id + 1,
                         pii_entities |-> tasks[r].pii_entities,
                         features |-> tasks[r].features,
                         risk_score |-> tasks[r].risk_score,
                         recommendations |-> <<>>, safe_rewrite |-> Absent]
            IN  /\ last_id' = last_id + 1
                /\ memory_storage' = memory_insert_one(memory_storage, "analysis_results",
                                                       AnalysisDoc(tasks[r].req, resp))
                /\ tasks' = [tasks EXCEPT ![r].pc = "done", ![r].status = 200]
       ELSE /\ tasks' = [tasks EXCEPT ![r].pc = "done", ![r].status = 500]
            /\ UNCHANGED <<last_id, memory_storage>>
    /\ UNCHANGED <<scorerVars, detectVars, llmVars, featVars, pipeVars,
                   use_memory, db_in, db_out, loop>>

\* the response is sent
AnalysisReturns(r) ==
    /\ AtStage(r, "done")
    /\ tasks' = [tasks EXCEPT ![r] = Idle]
    /\ UNCHANGED <<scorerVars, detectVars, llmVars, featVars, pipeVars, dbVars, loop>>

NextConcurrent ==
    \/ \E r \in Clients :
          \/ AnalysisArrives(r)
          \/ DetectStage(r)
          \/ FeatureStage(r)
          \/ ScoreStage(r)
          \/ InsertStage(r)
          \/ AnalysisReturns(r)
    \/ SaveModels

SpecConcurrent == InitConcurrent /\ [][NextConcurrent]_vars

(***************************************************************************)
(* The three operations of the LLM service tier by tier.  llm_out is the   *)
(* operation's progress: [pc, raised, value, tiers], pc the tier it is at  *)
(* ("P1", "P2", "static") or "done".  A provider that does not respond is  *)
(* the client library's timeout error: the call raises.                    *)
(***************************************************************************)
\* the body of the operation's block for this provider
TierBody(op, provider, p) ==
    IF provider = "P1"
    THEN IF op = "recommend" THEN GeminiRecommend(p)
         ELSE IF op = "rewrite" THEN GeminiRewrite(p)
         ELSE GeminiAnswer(p)
    ELSE IF op = "recommend" THEN OpenAIRecommend(p)
         ELSE IF op = "rewrite" THEN OpenAIRewrite(p)
         ELSE OpenAIAnswer(p)

\* what the provider's calls return, by operation
TierTexts(op) ==
    IF op = "recommend" THEN RequestRecommendTexts \cup {<< <<" ">> >>}
    ELSE IF op = "rewrite" THEN RequestRewriteTexts
    ELSE {<<>>, <<"w">>}

Progress(pc, raised, value, tiers) ==
    [pc |-> pc, raised |-> raised, value |-> value, tiers |-> tiers]

\* the operation is called; answer_privacy_question has two early returns
CallOperation ==
    /\ llm_out = Idle
    /\ \E op \in {"recommend", "rewrite", "answer"},
          pii_entities \in {<<>>, EntitiesOfTypes({"PERSON", "LOC"})},
          risk_level \in {LOW, HIGH} :
          /\ llm_in' = [op |-> op, pii_entities |-> pii_entities,
                        risk_level |-> risk_level, p1 |-> NotCalled, p2 |-> NotCalled]
          /\ llm_out' =
                IF op = "answer" /\ ~AnswerRunsCascade
                THEN Progress("done", FALSE,
                              answer_privacy_question(llm_svc, llm_env,
                                                      NotCalled, NotCalled).value, <<>>)
                ELSE Progress("P1", FALSE, <<>>, <<>>)
    /\ UNCHANGED <<featVars, pipeVars, scorerVars, detectVars, llm_env, llm_svc,
                   dbVars, taskVars>>

\* the try block of a tier: the provider answers, and the block returns
\* from the operation, falls through to next, or raises out of it;
\* guarded: the block has its `except Exception` handler
TierBlock(provider, next, configured, field, guarded) ==
    /\ llm_out # Idle
    /\ llm_out.pc = provider
    /\ IF ~configured
       THEN /\ llm_out' = [llm_out EXCEPT !.pc = next]
            /\ llm_in' = llm_in
       ELSE \E p \in Outcomes(TierTexts(llm_in.op)) :
               LET body == TierBody(llm_in.op, provider, p)
                   t == IF guarded THEN TryExcept(body) ELSE NoExcept(body)
                   tried == Append(llm_out.tiers, provider)
               IN  /\ llm_in' = [llm_in EXCEPT ![field] = p]
                   /\ llm_out' =
                        IF t.status = "return" THEN Progress("done", FALSE, t.value, tried)
                        ELSE IF t.status = "raise" THEN Progress("done", TRUE, <<>>, tried)
                        ELSE Progress(next, FALSE, <<>>, tried)
    /\ UNCHANGED <<featVars, pipeVars, scorerVars, detectVars, llm_env, llm_svc,
                   dbVars, taskVars>>

GeminiTierUnguarded ==
    TierBlock("P1", "P2", GeminiConfigured(llm_env), "p1", FALSE)

\* 1) Try Gemini first (if configured)
GeminiTier ==
    TierBlock("P1", "P2", GeminiConfigured(llm_env), "p1", TRUE)

\* 2) Fall back to OpenAI (LangChain) if enabled
OpenAITier ==
    TierBlock("P2", "static", OpenAIConfigured(llm_svc), "p2", TRUE)

\* 3) Final fallback
StaticTier ==
    /\ llm_out # Idle
    /\ llm_out.pc = "static"
    /\ llm_out' =
          Progress("done", FALSE,
                   IF llm_in.op = "recommend"
                   THEN fallback_recommendations(llm_in.pii_entities, llm_in.risk_level)
                   ELSE IF llm_in.op = "rewrite" THEN fallback_rewrite(llm_in.pii_entities)
                   ELSE fallback_answer,
                   Append(llm_out.tiers, "static"))
    /\ UNCHANGED <<featVars, pipeVars, scorerVars, detectVars, llm_env, llm_svc, llm_in,
                   dbVars, taskVars>>

\* the operation returns to its caller
ReturnOperation ==
    /\ llm_out # Idle
    /\ llm_out.pc = "done"
    /\ llm_in' = Idle
    /\ llm_out' = Idle
    /\ UNCHANGED <<featVars, pipeVars, scorerVars, detectVars, llm_env, llm_svc,
                   dbVars, taskVars>>

NextTiers ==
    \/ CallOperation
    \/ GeminiTier
    \/ OpenAITier
    \/ StaticTier
    \/ ReturnOperation

\* a tier that has been entered runs to its end: the calls are synchronous
SpecTiers ==
    /\ InitLLM
    /\ [][NextTiers]_vars
    /\ WF_vars(GeminiTier)
    /\ WF_vars(OpenAITier)
    /\ WF_vars(StaticTier)

(***************************************************************************)
(* app/llm/llm_service.py: _fallback_rewrite, character by character.      *)
(* The text and the paraphrase are strings; the tiers above carry the      *)
(* paraphrase as the one token of fallback_rewrite.                        *)
(***************************************************************************)
\* most entity types of one call, over RewriteTypes
MaxRewriteTypes == 3

CharAt(text, i) == SubSeq(text, i, i)

IsDigit(c) == c \in {"0", "1", "2", "3", "4", "5", "6", "7", "8", "9"}

\* \s and \w of the re module, on the characters drawn
IsSpace(c) == c \in {" ", "\n", "\t"}

IsWord(c) == IsDigit(c) \/ c = "_" \/ (\E i \in 1..26 : LowerLetters[i] = LowerChar(c))

\* text.lower(), on a string
RECURSIVE lower(_)
lower(text) ==
    IF Len(text) = 0 THEN ""
    ELSE LowerChar(CharAt(text, 1)) \o lower(SubSeq(text, 2, Len(text)))

\* text.startswith(prefix)
startswith(text, prefix) ==
    Len(text) >= Len(prefix) /\ SubSeq(text, 1, Len(prefix)) = prefix

\* re.search(r'19\d{2}|20\d{2}', text): where the pattern matches
YearMatches(text) ==
    {i \in 1..(Len(text) - 3) :
        /\ SubSeq(text, i, i + 1) \in {"19", "20"}
        /\ IsDigit(CharAt(text, i + 2))
        /\ IsDigit(CharAt(text, i + 3))}

\* decade = (int(year_match.group()) // 10) * 10, as f"{decade}" prints it:
\* the first three digits of the leftmost match and a zero
Decade(text) ==
    LET i == CHOOSE m \in YearMatches(text) : \A k \in YearMatches(text) : m <= k
    IN  SubSeq(text, i, i + 2) \o "0"

\* re.search(r'New York|NYC', text, re.IGNORECASE)
NewYorkMatch(text) == Contains("new york", lower(text)) \/ Contains("nyc", lower(text))

\* re.search(r'\d+\s+\w+\s+(Street|Avenue|Road|Blvd)', text, re.IGNORECASE):
\* a digit at a, blanks up to b, word characters up to c, blanks up to d,
\* then one of the four words
StreetMatch(text) ==
    LET n == Len(text)
        All(from, to, Class(_)) == \A k \in from..to : Class(CharAt(text, k))
    IN  \E a \in 1..n :
           /\ IsDigit(CharAt(text, a))
           /\ \E b \in (a + 1)..n :
                 /\ All(a + 1, b, IsSpace)
                 /\ \E c \in (b + 1)..n :
                       /\ All(b + 1, c, IsWord)
                       /\ \E d \in (c + 1)..n :
                             /\ All(c + 1, d, IsSpace)
                             /\ \E word \in {"street", "avenue", "road", "blvd"} :
                                   /\ d + Len(word) <= n
                                   /\ lower(SubSeq(text, d + 1, d + Len(word))) = word

\* sep.join(parts)
RECURSIVE join(_, _)
join(sep, parts) ==
    IF parts = <<>> THEN ""
    ELSE IF Len(parts) = 1 THEN parts[1]
    ELSE parts[1] \o sep \o join(sep, Tail(parts))

\* rewrite_parts.append(part) under `if condition`
AppendIf(condition, part) == IF condition THEN <<part>> ELSE <<>>

GenericParagraph ==
    "I'd like to connect regarding my account. Please reach me through the platform's secure messaging system for verification. I'm available for communication and can provide additional details through proper channels. Thank you for your assistance!"

\* rewrite_parts when the sections have run (lines 426-524)
rewrite_parts(text, pii_entities) ==
    LET entity_types == {pii_entities[i].type : i \in 1..Len(pii_entities)}
        text_lower == lower(text)
        has_subject == startswith(text_lower, "subject:")
        medical == Contains("medical", text_lower) \/ Contains("hospital", text_lower)
        ssn == "SSN" \in entity_types \/ "US_SSN" \in entity_types
        contact == "EMAIL_ADDRESS" \in entity_types \/ "PHONE_NUMBER" \in entity_types
        greeting ==
            IF "PERSON" \in entity_types
            THEN IF medical
                 THEN "Hi, I'm a healthcare professional from a medical organization in the area."
                 ELSE IF Contains("company", text_lower) \/ Contains("work", text_lower)
                 THEN "Hi, I'm a professional from an organization."
                 ELSE "Hi, I'm interested in connecting with you."
            ELSE "Hello there!"
        personal ==
            IF ssn \/ "DATE" \in entity_types
            THEN <<"\nPersonal Details:">>
                 \o AppendIf("DATE" \in entity_types /\ YearMatches(text) # {},
                             "I was born in the early " \o Decade(text)
                                \o "s generation, around the spring/summer timeframe.")
                 \o AppendIf(ssn, "My identification number and verification details are on file with your system.")
                 \o AppendIf(Contains("maiden", text_lower),
                             "Security verification information is available in your records.")
            ELSE <<>>
        contact_information ==
            IF contact
            THEN <<"\nContact Information:",
                   "You can reach me through this platform's messaging system or via the contact methods on file.">>
                 \o AppendIf(Cardinality(Occurrences("@", text)) >= 2,
                             "I have both personal and professional contact channels available.")
            ELSE <<>>
        location_context ==
            (IF NewYorkMatch(text) THEN <<"I'm located in the New York metropolitan area">>
             ELSE IF StreetMatch(text) THEN <<"I'm in a residential area in the city">>
             ELSE <<>>)
            \o AppendIf(Contains("apartment", text_lower) \/ Contains("apt", text_lower),
                        "in an apartment complex")
        location ==
            IF "LOCATION" \in entity_types \/ "GPE" \in entity_types
            THEN AppendIf(location_context # <<>>,
                          "\nLocation: " \o join(", ", location_context) \o ".")
            ELSE <<>>
        financial ==
            IF \/ "CREDIT_CARD" \in entity_types
               \/ Contains("credit card", text_lower)
               \/ Contains("bank", text_lower)
            THEN <<"\nFinancial Information:",
                   "My payment information and financial details are securely stored in your system.">>
                 \o AppendIf(Contains("salary", text_lower),
                             "Employment and compensation details are on record.")
            ELSE <<>>
        medical_information ==
            IF \/ Contains("patient", text_lower)
               \/ Contains("insurance", text_lower)
               \/ Contains("prescription", text_lower)
            THEN <<"\nMedical Information:",
                   "My patient ID and insurance policy information are available in the healthcare system.",
                   "Prescription and medical history details are documented.">>
            ELSE <<>>
        employment ==
            IF Contains("employee", text_lower) \/ Contains("manager", text_lower)
            THEN <<"\nEmployment:",
                   IF medical
                   THEN "I work in the healthcare sector, reporting to a supervisor in the medical department."
                   ELSE "I'm employed at an organization with management oversight.",
                   "My employee information and credentials are in the HR system.">>
            ELSE <<>>
        closing ==
            IF Contains("weekend", text_lower) \/ Contains("available", text_lower)
            THEN IF Contains("my place", text_lower) \/ Contains("my home", text_lower)
                 THEN <<"\nI'll be available at a local public location this coming weekend.">>
                 ELSE <<"\nI'm available for communication in the near future.">>
            ELSE <<>>
    IN  AppendIf(has_subject, "Subject: Account Recovery Request - Urgent\n")
        \o <<greeting>>
        \o AppendIf(Contains("recover", text_lower) \/ Contains("account", text_lower),
                    "I need to recover my account as soon as possible.")
        \o personal
        \o contact_information
        \o location
        \o financial
        \o medical_information
        \o employment
        \o closing
        \o AppendIf(contact, "Please use the secure messaging system or contact options available through the platform. Thanks!")

FallbackRewriteUnguarded(text, pii_entities) ==
    join(" ", rewrite_parts(text, pii_entities))

\* _fallback_rewrite(text, pii_entities)
_fallback_rewrite(text, pii_entities) ==
    LET full_rewrite == join(" ", rewrite_parts(text, pii_entities))
    IN  IF Len(full_rewrite) < 50 THEN GenericParagraph ELSE full_rewrite

(***************************************************************************)
(* The static rewrite tier on its own.                                     *)
(***************************************************************************)
\* the types the sections test, and one they do not
RewriteTypes ==
    {"PERSON", "DATE", "SSN", "US_SSN", "EMAIL_ADDRESS", "PHONE_NUMBER",
     "LOCATION", "GPE", "CREDIT_CARD", "URL"}

RewriteEntityLists ==
    {EntitiesOfTypes(types) :
        types \in {t \in SUBSET RewriteTypes : Cardinality(t) <= MaxRewriteTypes}}

\* texts drawn: empty, nothing a section tests, and texts for each section
\* and each branch of it, in lower, upper and mixed case
StaticRewriteTexts ==
    {"", "hi there",
     "Subject: please recover my Account",
     "SUBJECT: born on 03/04/1985, maiden name Smith",
     "born in 2001",
     "year 1899 or 208",
     "mail a@b.co or c@d.co",
     "mail a@b.co",
     "I live in nyc, Apt 4",
     "12 Main Street apartment 3",
     "at 7  Baker_St\tBLVD",
     "221b Baker Street",
     "my credit card and bank salary",
     "patient at the Hospital, my manager",
     "employee of a company",
     "available this weekend at my place",
     "free on the weekend",
     "insurance"}

InitStaticRewrite ==
    /\ model_file = "missing"
    /\ startup = model_file
    /\ ml = Initialize(model_file)
    /\ weights = FEATURE_WEIGHTS
    /\ features = Idle
    /\ risk = Idle
    /\ clf = Idle
    /\ nlp_svc = [nlp |-> "spacy", analyzer |-> "AnalyzerEngine"]
    /\ detect_in = Idle
    /\ detect_out = Idle
    /\ llm_env = [genai |-> TRUE, gemini_key |-> FALSE]
    /\ llm_svc = init_llm(TRUE, FALSE, TRUE, FALSE, TRUE)
    /\ llm_in = Idle
    /\ llm_out = Idle
    /\ feat_in = Idle
    /\ feat_out = Idle
    /\ an_in = Idle
    /\ an_out = Idle
    /\ an_first = Idle
    /\ use_memory = FALSE
    /\ memory_storage = EmptyStorage
    /\ last_id = 0
    /\ db_in = Idle
    /\ db_out = Idle
    /\ tasks = <<>>
    /\ loop = 0

\* rewrite_text_safely reaches its last line: return self._fallback_rewrite(text, pii_entities)
CallFallbackRewrite ==
    /\ llm_out = Idle
    /\ \E text \in StaticRewriteTexts, pii_entities \in RewriteEntityLists :
          /\ llm_in' = [op |-> "_fallback_rewrite", text |-> text, pii_entities |-> pii_entities]
          /\ llm_out' = [returned |-> _fallback_rewrite(text, pii_entities)]
    /\ UNCHANGED <<featVars, pipeVars, scorerVars, detectVars, llm_env, llm_svc, dbVars, taskVars>>

\* the caller has the string: the locals of the call are gone
ReturnFallbackRewrite ==
    /\ llm_out # Idle
    /\ llm_in' = Idle
    /\ llm_out' = Idle
    /\ UNCHANGED <<featVars, pipeVars, scorerVars, detectVars, llm_env, llm_svc, dbVars, taskVars>>

NextStaticRewrite == CallFallbackRewrite \/ ReturnFallbackRewrite

SpecStaticRewrite == InitStaticRewrite /\ [][NextStaticRewrite]_vars

(***************************************************************************)
(* The detector's claims.                                                  *)
(***************************************************************************)
SpanOf(e) == <<e.start, e.end>>
PresidioSpan(r) == <<r.start, r.end>>
SpacySpan(ent) == <<ent.start_char, ent.end_char>>
AllowedLabels == {"PERSON", "GPE", "LOC", "ORG", "DATE"}

DetectDone == detect_out # Idle /\ ~detect_out.raised

\* the index of the first result of Backend A with this span
FirstPresidio(a, sp) ==
    CHOOSE k \in 1..Len(a) :
        /\ PresidioSpan(a[k]) = sp
        /\ \A m \in 1..(k - 1) : PresidioSpan(a[m]) # sp

\* the index of the first allowed ent of Backend B with this span
FirstSpacy(b, sp) ==
    CHOOSE k \in 1..Len(b) :
        /\ SpacySpan(b[k]) = sp /\ b[k].label_ \in AllowedLabels
        /\ \A m \in 1..(k - 1) : ~(SpacySpan(b[m]) = sp /\ b[m].label_ \in AllowedLabels)

FromPresidio(a, e) == \E k \in 1..Len(a) : PresidioSpan(a[k]) = SpanOf(e)

\* when the entity was discovered: Backend A's results first, in their
\* order, then Backend B's
DiscoveryRank(a, b, e) ==
    IF FromPresidio(a, e) THEN FirstPresidio(a, SpanOf(e))
    ELSE Len(a) + FirstSpacy(b, SpanOf(e))

\* what one backend contributes when it runs alone
PresidioAlone(a) ==
    SortByStart(PresidioLoop(a, [entities |-> <<>>, seen_spans |-> {}]).entities)
SpacyAlone(b) ==
    SortByStart(SpacyLoop(b, [entities |-> <<>>, seen_spans |-> {}]).entities)

\* C8: detect_pii never raises; when one backend is unavailable or fails
\* in the call the result is what the other backend alone contributes, and
\* when both are the result is the empty list.
C8_DetectNeverRaises ==
    detect_out # Idle =>
        LET aDown == nlp_svc.analyzer = None \/ ~detect_in.a.ok
            bDown == nlp_svc.nlp = None \/ ~detect_in.b.ok
        IN  /\ ~detect_out.raised
            /\ (aDown /\ ~bDown) => detect_out.entities = SpacyAlone(detect_in.b.results)
            /\ (bDown /\ ~aDown) => detect_out.entities = PresidioAlone(detect_in.a.results)
            /\ (aDown /\ bDown) => detect_out.entities = <<>>

\* C9: the list detect_pii returns is sorted non-decreasing by start, and
\* entities with equal start are in discovery order (Backend A's entities
\* in Backend A's order, then Backend B's in Backend B's order).
C9_SortedStable ==
    DetectDone =>
        LET out == detect_out.entities
            a == detect_in.a.results
            b == detect_in.b.results
        IN  \A i, j \in 1..Len(out) :
                i < j =>
                    /\ out[i].start <= out[j].start
                    /\ out[i].start = out[j].start =>
                           DiscoveryRank(a, b, out[i]) < DiscoveryRank(a, b, out[j])

\* Backend B found two entities with the same start, the longer one first,
\* and Backend A one that starts later: the sort moved Backend A's entity
\* behind both and kept Backend B's order
C9_Witness ==
    /\ DetectDone
    /\ Len(detect_out.entities) = 3
    /\ detect_out.entities[1].start = detect_out.entities[2].start
    /\ detect_out.entities[1].end > detect_out.entities[2].end
    /\ detect_out.entities[1].confidence = 85
    /\ detect_out.entities[2].confidence = 85
    /\ detect_out.entities[3].confidence = 100

\* C10: no two returned entities have the same (start, end); a span that
\* Backend A reports is returned with the type and confidence of Backend
\* A's first result for it, whether or not Backend B reports it too; every
\* other span Backend B reports under an allowed label is returned; and
\* every entity that is not Backend A's has an allowed type and
\* confidence 0.85.
C10_ExactSpanDedup ==
    DetectDone =>
        LET out == detect_out.entities
            a == detect_in.a.results
            b == detect_in.b.results
        IN  /\ \A i, j \in 1..Len(out) : i < j => SpanOf(out[i]) # SpanOf(out[j])
            /\ \A k \in 1..Len(a) :
                  \E i \in 1..Len(out) :
                      /\ SpanOf(out[i]) = PresidioSpan(a[k])
                      /\ out[i].type = a[FirstPresidio(a, PresidioSpan(a[k]))].entity_type
                      /\ out[i].confidence = a[FirstPresidio(a, PresidioSpan(a[k]))].score
            /\ \A k \in 1..Len(b) :
                  b[k].label_ \in AllowedLabels =>
                      \E i \in 1..Len(out) : SpanOf(out[i]) = SpacySpan(b[k])
            /\ \A i \in 1..Len(out) :
                  ~FromPresidio(a, out[i]) =>
                      /\ out[i].type \in AllowedLabels
                      /\ out[i].confidence = 85
                      /\ \E k \in 1..Len(b) :
                            SpacySpan(b[k]) = SpanOf(out[i]) /\ b[k].label_ = out[i].type

\* both backends report the span (0, 2), Backend A as an e-mail address and
\* Backend B as a person, and Backend B adds an overlapping span of its own
C10_Witness ==
    /\ DetectDone
    /\ \E k \in 1..Len(detect_in.a.results), m \in 1..Len(detect_in.b.results) :
          /\ PresidioSpan(detect_in.a.results[k]) = SpacySpan(detect_in.b.results[m])
          /\ detect_in.a.results[k].entity_type = "EMAIL_ADDRESS"
          /\ detect_in.b.results[m].label_ = "PERSON"
    /\ \E i \in 1..Len(detect_out.entities) : detect_out.entities[i].confidence = 85
    /\ Len(detect_out.entities) = 2

RuleBasedMode == ~(ml.model # None /\ ml.model_type = "trained")

Rank(level) == IF level = LOW THEN 0 ELSE IF level = MEDIUM THEN 1 ELSE 2

\* every (score, level) the rule-based scorer yields over the input domain
RuleScoreLevels ==
    {<<r.score, r.level>> :
        r \in {rule_based_scoring(f, FEATURE_WEIGHTS) : f \in FeatureVectors}}

\* C1: every call of calculate_risk_score, in rule-based and in
\* trained-classifier mode, produces a RiskScore whose score lies in
\* [0, 100] (0..10000 hundredths).
C1_ScoreInRange ==
    risk # Idle => IsRiskScore(risk) /\ 0 <= risk.score /\ risk.score <= 10000

\* a trained-mode call that reached the top of the range
C1_Witness ==
    /\ ~RuleBasedMode
    /\ IsRiskScore(risk)
    /\ risk.score = 10000

\* C2 as stated: the level follows from RiskScore.score by the two
\* thresholds (taken on the score's 0..100 scale): score < low gives LOW,
\* otherwise score < medium gives MEDIUM, otherwise HIGH.
C2_LevelFromScore ==
    (RuleBasedMode /\ IsRiskScore(risk)) =>
        /\ (risk.level = LOW) <=> (risk.score < RISK_LOW_THRESHOLD * 100)
        /\ (risk.level = HIGH) <=> (risk.score >= RISK_MEDIUM_THRESHOLD * 100)

\* C2 amended: in rule-based mode the level follows from the unrounded
\* weighted sum (the RiskScore's ml_probability) by the two thresholds, and
\* no feature vector with a higher score has a lower level.
C2_LevelFromWeightedSum ==
    (RuleBasedMode /\ risk # Idle) =>
        /\ IsRiskScore(risk)
        /\ (risk.level = LOW) <=>
              (risk.ml_probability.n < RISK_LOW_THRESHOLD * (risk.ml_probability.d \div 100))
        /\ (risk.level = HIGH) <=>
              (risk.ml_probability.n >= RISK_MEDIUM_THRESHOLD * (risk.ml_probability.d \div 100))
        /\ \A p \in RuleScoreLevels :
              /\ p[1] > risk.score => Rank(p[2]) >= Rank(risk.level)
              /\ p[1] < risk.score => Rank(p[2]) <= Rank(risk.level)

\* a MEDIUM result with scores above it that are HIGH and below it that are LOW
C2_Witness ==
    /\ RuleBasedMode
    /\ IsRiskScore(risk)
    /\ risk.level = MEDIUM
    /\ \E p \in RuleScoreLevels : p[1] > risk.score /\ p[2] = HIGH
    /\ \E p \in RuleScoreLevels : p[1] < risk.score /\ p[2] = LOW

\* C3: when the artifact was missing or failed to load at startup, the
\* service is in rule-based mode with no model in every later state, also
\* after the artifact appears on disk, and every RiskScore it returns has
\* confidence 0.75.
C3_RuleBasedForLife ==
    startup # "present" =>
        /\ ml.model = None
        /\ ml.model_type = "rule_based"
        /\ ml.scaler = "StandardScaler"
        /\ risk # Idle => IsRiskScore(risk) /\ risk.confidence = [n |-> 75, d |-> 100]

\* the scaler failed to load at startup, the artifact was written later,
\* and a score was returned after that
C3_Witness ==
    /\ startup = "corrupt_scaler"
    /\ model_file = "present"
    /\ IsRiskScore(risk)

(***************************************************************************)
(* The LLM service's claims.                                               *)
(***************************************************************************)
LLMDone == llm_out # Idle

\* the tier whose output the operation returned
ReturningTier == IF llm_out.tiers = <<>> THEN None ELSE llm_out.tiers[Len(llm_out.tiers)]

\* a provider call that did not fail and whose output is neither empty nor
\* invalid: a recommendation response with a parseable line, a rewrite or
\* an answer with a non-blank text
ProviderSucceeded(op, p) ==
    /\ p.kind = "text"
    /\ IF op = "recommend"
       THEN parse_recommendations(p.text) # <<>>
       ELSE Strip(p.text) # <<>>

OutputOf(op, p) ==
    IF op = "recommend" THEN parse_recommendations(p.text)
    ELSE IF op = "rewrite" THEN Strip(p.text)
    ELSE WithDisclaimer(Strip(p.text))

StaticOutput ==
    IF llm_in.op = "recommend"
    THEN fallback_recommendations(llm_in.pii_entities, llm_in.risk_level)
    ELSE IF llm_in.op = "rewrite" THEN fallback_rewrite(llm_in.pii_entities)
    ELSE fallback_answer

\* the operation went through its tiers (answer has two early returns)
RanCascade == llm_in.op # "answer" \/ AnswerRunsCascade

\* C4: recommend, rewrite and answer always return a value and never raise
\* to their caller, whatever the providers are configured as and whatever
\* they do (raise, return nothing, return empty or malformed output), for
\* every entity list and risk level.
C4_NeverRaises == LLMDone => ~llm_out.raised

C4_Witness ==
    /\ LLMDone
    /\ llm_in.p1.kind = "raise"
    /\ llm_in.p2.kind = "none"
    /\ llm_out.tiers = <<"P1", "P2", "static">>
    /\ ~llm_out.raised
    /\ llm_out.value = StaticOutput

\* C5: recommend returns at most 5 items, whichever tier produced them.
C5_AtMostFive ==
    (LLMDone /\ llm_in.op = "recommend" /\ ~llm_out.raised) => Len(llm_out.value) <= 5

C5_Witness ==
    /\ LLMDone
    /\ llm_in.op = "recommend"
    /\ llm_in.p1.kind = "text"
    /\ Len(llm_in.p1.text) = 6
    /\ \A i \in 1..6 : llm_in.p1.text[i] = NumberedLine
    /\ llm_out.tiers = <<"P1">>
    /\ Len(llm_out.value) = 5

\* C6: the tiers are tried in the order P1, P2, static; P2 is invoked only
\* after P1 was unavailable or failed, static only after every available
\* provider failed, and the value returned is the output of the first tier
\* that succeeds, a tier succeeding when its call does not fail and its
\* output is neither empty nor invalid.
C6_FirstSuccessfulTier ==
    (LLMDone /\ RanCascade /\ ~llm_out.raised) =>
        LET op == llm_in.op
            ok1 == GeminiConfigured(llm_env) /\ ProviderSucceeded(op, llm_in.p1)
            ok2 == OpenAIConfigured(llm_svc) /\ ProviderSucceeded(op, llm_in.p2)
        IN  /\ ok1 => /\ llm_out.tiers = <<"P1">>
                      /\ llm_out.value = OutputOf(op, llm_in.p1)
            /\ (~ok1 /\ ok2) => /\ ReturningTier = "P2"
                                /\ llm_out.value = OutputOf(op, llm_in.p2)
            /\ (~ok1 /\ ~ok2) => /\ ReturningTier = "static"
                                 /\ llm_out.value = StaticOutput
            /\ ((\E i \in 1..Len(llm_out.tiers) : llm_out.tiers[i] = "P2") /\ GeminiConfigured(llm_env))
                  => ~ProviderSucceeded(op, llm_in.p1)

\* C7: an empty or invalid provider output counts as that tier's failure
\* and is never returned: recommend never returns an empty list, rewrite
\* and answer never return an empty string, and a provider tier returns
\* only when its output has a parseable line (recommend) or is non-empty
\* (rewrite, answer).
C7_EmptyOutputIsFailure ==
    (LLMDone /\ ~llm_out.raised) =>
        /\ llm_out.value # <<>>
        /\ ReturningTier = "P1" => ProviderSucceeded(llm_in.op, llm_in.p1)
        /\ ReturningTier = "P2" => ProviderSucceeded(llm_in.op, llm_in.p2)


(***************************************************************************)
(* The feature stage's claims.                                             *)
(***************************************************************************)
CountsDone == feat_out # Idle /\ feat_in.op = "extract_entity_counts"
KeywordsDone == feat_out # Idle /\ feat_in.op = "detect_sensitive_keywords"
FeaturesDone == feat_out # Idle /\ feat_in.op = "extract_features"

\* the ordered first-match rules, as the claim lists them
RuleOrder ==
    <<"num_emails", "num_phones", "num_locations", "num_persons",
      "num_organizations", "num_dates">>

RuleMatches(rule, type) ==
    CASE rule = "num_emails" -> TypeContains(type, "EMAIL")
      [] rule = "num_phones" -> TypeContains(type, "PHONE")
      [] rule = "num_locations" -> type \in {"LOCATION", "GPE", "LOC"}
      [] rule = "num_persons" -> type = "PERSON"
      [] rule = "num_organizations" -> type \in {"ORGANIZATION", "ORG"}
      [] rule = "num_dates" -> type = "DATE"

MatchesExplicitRule(type) == \E r \in 1..Len(RuleOrder) : RuleMatches(RuleOrder[r], type)

\* the entities the rules put in this bucket: the first rule that matches,
\* or other when none does
InBucket(entities, bucket) ==
    {i \in 1..Len(entities) :
        IF bucket = "num_other" THEN ~MatchesExplicitRule(entities[i].type)
        ELSE \E r \in 1..Len(RuleOrder) :
                /\ RuleOrder[r] = bucket
                /\ RuleMatches(bucket, entities[i].type)
                /\ \A q \in 1..(r - 1) : ~RuleMatches(RuleOrder[q], entities[i].type)}

\* C11: extract_entity_counts puts every entity in exactly one of the seven
\* buckets, chosen by the ordered first-match rules: each count is the
\* number of entities whose first matching rule is that bucket, the seven
\* counts sum to the number of entities, and the counts without other sum
\* to the number of entities that match an explicit rule.
C11_OneBucketEach ==
    CountsDone =>
        LET entities == feat_in.entities
            counts == feat_out.entity_counts
        IN  /\ DOMAIN counts = BucketNames
            /\ \A b \in BucketNames : counts[b] = Cardinality(InBucket(entities, b))
            /\ SumValues(counts, BucketNames) = Len(entities)
            /\ SumValues(counts, BucketNames \ {"num_other"})
                  = Cardinality({i \in 1..Len(entities) : MatchesExplicitRule(entities[i].type)})

\* a spaCy location, a spaCy organisation and a URL: two explicit rules, one other
C11_Witness ==
    /\ CountsDone
    /\ Len(feat_in.entities) = 3
    /\ {feat_in.entities[i].type : i \in 1..3} = {"LOC", "ORG", "URL"}
    /\ feat_out.entity_counts["num_locations"] = 1
    /\ feat_out.entity_counts["num_organizations"] = 1
    /\ feat_out.entity_counts["num_other"] = 1

\* C12: entity_density is the sum of the bucket counts without other,
\* divided by the text length, when the text length is positive, and 0
\* when it is 0; entities in the other bucket do not change it.
C12_DensityExcludesOther ==
    FeaturesDone =>
        LET density == feat_out.features.entity_density
            counted == SumValues(feat_in.entity_counts, BucketNames \ {"num_other"})
        IN  IF feat_in.text_length > 0
            THEN density.n * feat_in.text_length = counted * density.d
            ELSE density.n = 0

\* the keywords of the list that occur in the text, letter case ignored
KeywordsPresent(text) ==
    {k \in 1..Len(SENSITIVE_KEYWORDS) :
        \E i \in 1..Len(text) :
            /\ i + Len(SENSITIVE_KEYWORDS[k]) - 1 <= Len(text)
            /\ \A j \in 1..Len(SENSITIVE_KEYWORDS[k]) :
                  LowerChar(text[i + j - 1]) = SENSITIVE_KEYWORDS[k][j]}

\* C13: detect_sensitive_keywords(text) is the number of keywords of the
\* list that occur in the text as a substring, letter case ignored; a
\* keyword counts once however often it occurs, so the result is between 0
\* and the length of the list.
C13_KeywordPresenceCount ==
    KeywordsDone =>
        /\ feat_out.sensitive_keywords = Cardinality(KeywordsPresent(feat_in.text))
        /\ 0 <= feat_out.sensitive_keywords
        /\ feat_out.sensitive_keywords <= Len(SENSITIVE_KEYWORDS)

\* "ssn ssn SSN": one keyword, three times, in both cases
C13_Witness ==
    /\ KeywordsDone
    /\ Cardinality(Occurrences(<<"s", "s", "n">>, Lower(feat_in.text))) = 3
    /\ \E i \in 1..Len(feat_in.text) : feat_in.text[i] = "S"
    /\ feat_out.sensitive_keywords = 1


\* C14: every RiskScore has its probability and its confidence in [0,1];
\* in rule-based mode the probability is the weighted sum before scaling
\* and the confidence is 0.75, for every feature vector and every
\* configured weight table, so that constructing the RiskScore never fails.
C14_ProbabilityInUnitInterval ==
    risk # Idle =>
        /\ IsRiskScore(risk)
        /\ 0 <= risk.ml_probability.n /\ risk.ml_probability.n <= risk.ml_probability.d
        /\ 0 <= risk.confidence.n /\ risk.confidence.n <= risk.confidence.d
        /\ RuleBasedMode =>
              /\ risk.ml_probability = WeightedSum(features, weights)
              /\ risk.confidence = [n |-> 75, d |-> 100]


\* the count tables with at most c[b] entities in every bucket b of keys
RECURSIVE CountsBelow(_, _)
CountsBelow(c, keys) ==
    IF keys = {} THEN {[b \in {} |-> 0]}
    ELSE LET k == CHOOSE x \in keys : TRUE
         IN  {[b \in keys |-> IF b = k THEN v ELSE g[b]] :
                 g \in CountsBelow(c, keys \ {k}), v \in 0..c[k]}

RuleScoreOf(text_length, entity_counts, sensitive_keywords) ==
    rule_based_scoring(extract_features(text_length, entity_counts, sensitive_keywords),
                       weights).score

\* C20: in rule-based mode the score is monotonic in the detected PII: a
\* text of the same length with no more entities in any bucket and no more
\* sensitive keywords has no higher score; and a text with a person, a
\* location and a phone entity scores strictly higher than a text (no
\* longer) with no entities and no sensitive keywords.
C20_MonotoneInPII ==
    (FeaturesDone /\ RuleBasedMode) =>
        LET c == feat_in.entity_counts
            score == feat_out.risk_score.score
        IN  /\ IsRiskScore(feat_out.risk_score)
            /\ \A c2 \in CountsBelow(c, BucketNames) :
               \A k2 \in {k \in KeywordCounts : k <= feat_in.sensitive_keywords} :
                  RuleScoreOf(feat_in.text_length, c2, k2) <= score
            /\ (c["num_persons"] >= 1 /\ c["num_locations"] >= 1 /\ c["num_phones"] >= 1) =>
                  \A len \in {l \in TextLengths : l <= feat_in.text_length} :
                      RuleScoreOf(len, ZeroCounts, 0) < score

\* one person, one location and one phone number in a text of 66
\* characters with no sensitive keyword
C20_Witness ==
    /\ FeaturesDone
    /\ RuleBasedMode
    /\ feat_in.text_length = 66
    /\ feat_in.sensitive_keywords = 0
    /\ feat_in.entity_counts =
          [ZeroCounts EXCEPT !["num_persons"] = 1, !["num_locations"] = 1, !["num_phones"] = 1]
    /\ RuleScoreOf(66, ZeroCounts, 0) = 33
    /\ feat_out.risk_score.score = 3383


AnswerDone == LLMDone /\ llm_in.op = "answer"

\* a provider the tiers of the service would call
SomeProviderConfigured == GeminiConfigured(llm_env) \/ llm_svc.llm # None

\* the call of a provider failed
CallFailed(p) == p.kind \in {"raise", "none"}

\* C16: answer returns the fixed feature-unavailable message, with no tier
\* attempted, if and only if no generative provider is configured at all;
\* when at least one is configured the chain is run, and when every
\* configured provider fails the static paragraph is returned.
C16_DisabledIffNoProvider ==
    AnswerDone =>
        /\ ~llm_out.raised
        /\ llm_out.tiers = <<>> <=> ~SomeProviderConfigured
        /\ llm_out.tiers = <<>> =>
              llm_out.value = <<"The AI assistant feature is currently disabled ...">>
        /\ (/\ SomeProviderConfigured
            /\ GeminiConfigured(llm_env) => CallFailed(llm_in.p1)
            /\ llm_svc.llm # None => CallFailed(llm_in.p2)) =>
              llm_out.value = fallback_answer

HasDisclaimer(text) == \E i \in 1..Len(text) : text[i] = "This is not legal advice"

\* C17: every string answer returns from a generative tier or from the
\* static tier contains the "not legal advice" disclaimer; when the
\* provider's text lacks it the sentence is appended at the end.
C17_AlwaysDisclaimer ==
    (AnswerDone /\ ~llm_out.raised /\ llm_out.tiers # <<>>) =>
        /\ HasDisclaimer(llm_out.value)
        /\ ReturningTier \in {"P1", "P2"} =>
              LET p == IF ReturningTier = "P1" THEN llm_in.p1 ELSE llm_in.p2
              IN  IF HasDisclaimer(p.text)
                  THEN llm_out.value = Strip(p.text)
                  ELSE llm_out.value
                          = Strip(p.text) \o <<"NL", "NL", "This is not legal advice", ".">>

\* OpenAI answers with the sentence in lower case only: the sentence is appended
C17_Witness ==
    /\ AnswerDone
    /\ ReturningTier = "P2"
    /\ llm_in.p2.text = <<"this is not legal advice", " ", "w">>
    /\ llm_out.value = <<"this is not legal advice", " ", "w",
                         "NL", "NL", "This is not legal advice", ".">>


(***************************************************************************)
(* The handler's claims.                                                   *)
(***************************************************************************)
AnalysisDone == an_out # Idle

Entered(stage) == \E i \in 1..Len(an_out.calls) : an_out.calls[i] = stage

\* C15: in an analysis request rewrite is invoked if and only if
\* include_rewrite is set and the detected entity list is non-empty; in
\* every other case no rewrite tier is called and the result has no
\* rewrite.
C15_RewriteIffWanted ==
    AnalysisDone =>
        /\ Entered("rewrite_text_safely")
              <=> (an_in.include_rewrite /\ an_out.pii_entities # <<>>)
        /\ ~Entered("rewrite_text_safely") =>
              /\ an_out.rewrite_tiers = <<>>
              /\ an_out.safe_rewrite = Absent
              /\ an_in.rw_p1 = NotCalled /\ an_in.rw_p2 = NotCalled
        /\ (Entered("rewrite_text_safely") /\ an_out.status = 200) =>
              /\ an_out.rewrite_tiers # <<>>
              /\ an_out.safe_rewrite # Absent

\* both backends find an entity, no provider is configured: the static
\* rewrite is in the result
C15_Witness ==
    /\ AnalysisDone
    /\ an_in.include_rewrite
    /\ Len(an_out.pii_entities) = 1
    /\ an_out.status = 200
    /\ an_out.rewrite_tiers = <<"static">>
    /\ an_out.safe_rewrite = Present(fallback_rewrite(an_out.pii_entities))

\* C18: the only failures the caller of an analysis request sees are
\* InvalidInput (text length outside 10..10000: a client error, before
\* detection runs) and a server error for an unrecoverable failure; a
\* failing recognizer backend, a missing classifier artifact and a failing
\* generative provider never give an error response.
C18_OnlyInvalidInputOrServerError ==
    (AnalysisDone /\ an_in.route = "/analyze-text") =>
        /\ an_out.status \in {200, 422, 500}
        /\ an_out.status = 422 <=> ~ValidRequest(an_in.text)
        /\ an_out.status = 422 => an_out.calls = <<>>
        /\ (ValidRequest(an_in.text) /\ an_in.insert_ok) => an_out.status = 200

SameText(r1, r2) == r1.text = r2.text /\ r1.a = r2.a /\ r1.b = r2.b

StatedRuleOutput(pii_entities, risk_level) ==
    LET entity_types == TypesOf(pii_entities)
        fired ==
               (IF entity_types \cap {"EMAIL_ADDRESS", "PHONE_NUMBER"} # {}
                THEN <<"Remove or hide direct contact information.">> ELSE <<>>)
            \o (IF "PERSON" \in entity_types
                THEN <<"Avoid using full real names.">> ELSE <<>>)
            \o (IF entity_types \cap {"LOCATION", "GPE", "LOC"} # {}
                THEN <<"Replace specific locations with general areas.">> ELSE <<>>)
            \o (IF "DATE" \in entity_types
                THEN <<"Generalize specific dates.">> ELSE <<>>)
            \o (IF risk_level = HIGH
                THEN <<"HIGH RISK: Consider not sharing this information publicly at all.">>
                ELSE <<>>)
    IN  IF fired = <<>> THEN <<"Your text appears relatively safe.">> ELSE fired

\* C21: when no generative provider produces a result, recommend returns
\* the static rule output: the contact suggestion iff an email or phone
\* entity is present, the names suggestion iff a person entity is present,
\* the geography suggestion iff a LOCATION, GPE or LOC entity is present,
\* the dates suggestion iff a date entity is present, the warning iff the
\* level is HIGH, and exactly the one safe message iff none of them fired.
C21_StaticRuleOutput ==
    (LLMDone /\ llm_in.op = "recommend" /\ ~llm_out.raised /\ ReturningTier = "static")
        => llm_out.value = StatedRuleOutput(llm_in.pii_entities, llm_in.risk_level)

(***************************************************************************)
(* The store's claims.                                                     *)
(***************************************************************************)
AnalysisResults == memory_storage.analysis_results

\* the positions of the documents with this id
Holding(docs, id) == {i \in 1..Len(docs) : docs[i]._id = id}

\* an analyze-text request is answered in this step, over the in-memory store
AnswersAnalyzeText ==
    an_out = Idle /\ an_out' # Idle /\ an_in'.route = "/analyze-text" /\ use_memory

\* C28: a successful analyze-text request adds exactly one record to the
\* store, keyed by the analysis id returned to the caller and holding the
\* same entities, features, risk score, recommendations and rewrite as the
\* response; a request that ends in an error response adds no record and
\* leaves all existing records unchanged.
C28_OneRecordPerSuccess ==
    [][AnswersAnalyzeText =>
         IF an_out'.status = 200
         THEN /\ Holding(AnalysisResults, an_out'.analysis_id) = {}
              /\ AnalysisResults' = Append(AnalysisResults,
                    [_id |-> an_out'.analysis_id, input_text |-> an_in'.text,
                     pii_entities |-> an_out'.pii_entities,
                     features |-> an_out'.features,
                     risk_score |-> an_out'.risk_score,
                     recommendations |-> an_out'.recommendations,
                     safe_rewrite |-> an_out'.safe_rewrite])
         ELSE memory_storage' = memory_storage]_vars

\* the second successful request of a process has been stored behind the first
C28_Witness ==
    /\ use_memory
    /\ an_out # Idle
    /\ an_out.status = 200
    /\ Len(AnalysisResults) = 2
    /\ AnalysisResults[2]._id = an_out.analysis_id
    /\ AnalysisResults[1]._id # an_out.analysis_id

\* a store route is answered in this step, over the in-memory store
AnswersStoreRoute(route) ==
    db_out = Idle /\ db_out' # Idle /\ db_in'.route = route /\ use_memory

\* docs without its element at position i
Without(docs, i) == SubSeq(docs, 1, i - 1) \o SubSeq(docs, i + 1, Len(docs))

Users == memory_storage.users

Registered(email) == \E i \in 1..Len(Users) : Users[i].email = email

\* the register call of client c ends in this step
RegisterEnds(c) == tasks[c].pc \in {"find", "create"} /\ tasks'[c].pc = "done"

\* C24: registered emails are unique: after any sequence or interleaving of
\* register calls the user store never holds two users with the same
\* email, and a register call for an email that is already registered is
\* rejected with 'Email already registered' and leaves the store unchanged.
C24_UniqueEmails ==
    [][/\ \A i, j \in 1..Len(Users') : Users'[i].email = Users'[j].email => i = j
       /\ \A c \in Clients :
            (use_memory /\ RegisterEnds(c) /\ Registered(tasks[c].email)) =>
                /\ tasks'[c].status = 400
                /\ tasks'[c].detail = "Email already registered"
                /\ memory_storage' = memory_storage]_vars

\* both emails are registered, and a call for one of them has been
\* rejected while another call is in flight
C24_Witness ==
    /\ use_memory
    /\ Len(Users) = 2
    /\ \E c \in Clients : tasks[c].pc = "done" /\ tasks[c].status = 400

(***************************************************************************)
(* The claim about concurrent requests.                                    *)
(***************************************************************************)
\* what the request of r produces when no other request runs
Alone(r) ==
    analyze_text(nlp_svc, Initialize(startup), startup, FEATURE_WEIGHTS,
                 llm_svc, llm_env, tasks[r].req)

\* C22: under any interleaving of concurrently executing analysis requests,
\* no request modifies state that another request's detection, feature
\* extraction or scoring reads (scorer mode, classifier artifact in memory,
\* weight table): each request's entity list, FeatureVector and RiskScore
\* equal what the same request produces when run alone.
C22_RequestsIndependent ==
    /\ ml = Initialize(startup)
    /\ weights = FEATURE_WEIGHTS
    /\ \A r \in Clients :
          (AtStage(r, "done") /\ tasks[r].status # 422) =>
              /\ tasks[r].pii_entities = Alone(r).pii_entities
              /\ tasks[r].features = Alone(r).features
              /\ tasks[r].risk_score = Alone(r).risk_score

\* two requests are answered 200 at the same time, the training run having
\* written the artifact after the process started without one
C22_Witness ==
    /\ startup = "missing"
    /\ model_file = "present"
    /\ \A r \in Clients : AtStage(r, "done") /\ tasks[r].status = 200
    /\ tasks[1].req # tasks[2].req

(***************************************************************************)
(* The claim about the chain of tiers.                                     *)
(***************************************************************************)
InOperation == llm_out # Idle

OperationDone == llm_out # Idle /\ llm_out.pc = "done"

\* P1 was called and raised (an error, or the timeout of a provider that
\* does not respond)
P1Failed == llm_in # Idle /\ llm_in.p1.kind = "raise"

StatedCaps ==
    [num_emails |-> 3, num_phones |-> 2, num_locations |-> 5, num_persons |-> 3,
     num_organizations |-> 3, text_length |-> 1000, sensitive_keywords_count |-> 5]

WeightKey(field) ==
    IF field = "sensitive_keywords_count" THEN "sensitive_keywords" ELSE field

RECURSIVE StatedCappedSum(_, _)
StatedCappedSum(f, fields) ==
    IF fields = {} THEN 0
    ELSE LET k == CHOOSE x \in fields : TRUE
         IN  Min(f[k], StatedCaps[k]) * (3000 \div StatedCaps[k])
                * FEATURE_WEIGHTS[WeightKey(k)]
             + StatedCappedSum(f, fields \ {k})

\* the stated weighted sum n/d: the seven capped features and the density
StatedWeightedSum(f) ==
    LET density == f.entity_density
    IN  [n |-> StatedCappedSum(f, DOMAIN StatedCaps) * density.d
               + 3000 * Min(density.n * 100, density.d) * FEATURE_WEIGHTS["entity_density"],
         d |-> 3000 * 100 * density.d]

\* n/d capped at 1, in ten-thousandths of d: the score in hundredths is
\* OnScoreScale(ws).n / OnScoreScale(ws).d
OnScoreScale(ws) == [n |-> Min(ws.n, ws.d), d |-> ws.d \div 10000]

StatedProbabilityAndConfidence ==
    /\ risk.ml_probability = StatedWeightedSum(features)
    /\ risk.confidence = [n |-> 75, d |-> 100]

\* C25 as stated: rule-based scoring computes normalized = min(value/cap, 1)
\* with caps emails 3, phones 2, locations 5, persons 3, organizations 3,
\* textLength 1000, sensitiveKeywordCount 5, and min(entityDensity*100, 1);
\* weightedSum over exactly these eight features; score =
\* min(weightedSum*100, 100); probability = weightedSum; confidence = 0.75.
C25_ScoreIsWeightedSum ==
    (RuleBasedMode /\ risk # Idle) =>
        /\ IsRiskScore(risk)
        /\ StatedProbabilityAndConfidence
        /\ LET s == OnScoreScale(StatedWeightedSum(features))
           IN  risk.score * s.d = s.n

\* C25 amended: the same, with score = min(weightedSum*100, 100) rounded to
\* two decimals (the score is within half a hundredth of it).
C25_ScoreIsRoundedWeightedSum ==
    (RuleBasedMode /\ risk # Idle) =>
        /\ IsRiskScore(risk)
        /\ StatedProbabilityAndConfidence
        /\ LET s == OnScoreScale(StatedWeightedSum(features))
           IN  /\ 2 * (risk.score * s.d - s.n) <= s.d
               /\ 2 * (s.n - risk.score * s.d) <= s.d

\* a vector with dates whose weighted sum has more than two decimals on
\* the 0..100 scale
C25_Witness ==
    /\ RuleBasedMode
    /\ IsRiskScore(risk)
    /\ features.num_dates > 0
    /\ features.num_organizations = 1
    /\ LET s == OnScoreScale(StatedWeightedSum(features))
       IN  risk.score * s.d # s.n

TrainedMode == ml.model # None /\ ml.model_type = "trained"

\* 100 * ProbGrid * (p[LOW]*25 + p[MEDIUM]*60 + p[HIGH]*100): the stated
\* blend in hundredths, times ProbGrid
StatedBlend(p) == (p[1] * 25 + p[2] * 60 + p[3] * 100) * 100

\* level, probability and confidence from the classifier's output, and the
\* classifier's input: the nine raw features, scaled by the loaded scaler
StatedLevelAndInput ==
    /\ clf # Idle
    /\ risk.level = <<LOW, MEDIUM, HIGH>>[clf.prediction + 1]
    /\ risk.ml_probability = [n |-> clf.probabilities[clf.prediction + 1], d |-> ProbGrid]
    /\ risk.confidence = risk.ml_probability
    /\ ml.scaler = "scaler"
    /\ clf.input.scaler = ml.scaler
    /\ Len(clf.input.X) = 9
    /\ clf.input.X = <<features.num_emails, features.num_phones,
                       features.num_locations, features.num_persons,
                       features.num_organizations, features.num_dates,
                       features.text_length, features.entity_density,
                       features.sensitive_keywords_count>>

\* C26 as stated: in trained-classifier mode, for every classifier output
\* (index i, vector p): level = [LOW, MEDIUM, HIGH][i], probability = p[i],
\* confidence = probability, score = p[LOW]*25 + p[MEDIUM]*60 + p[HIGH]*100,
\* computed from the raw 9-dimensional feature vector scaled with the
\* persisted scaler.
C26_ScoreIsBlend ==
    (TrainedMode /\ risk # Idle) =>
        /\ IsRiskScore(risk)
        /\ StatedLevelAndInput
        /\ risk.score * ProbGrid = StatedBlend(clf.probabilities)

\* C26 amended: the same, with the score being the blend rounded to two
\* decimals (within half a hundredth of it).
C26_ScoreIsRoundedBlend ==
    (TrainedMode /\ risk # Idle) =>
        /\ IsRiskScore(risk)
        /\ StatedLevelAndInput
        /\ 2 * (risk.score * ProbGrid - StatedBlend(clf.probabilities)) <= ProbGrid
        /\ 2 * (StatedBlend(clf.probabilities) - risk.score * ProbGrid) <= ProbGrid

\* a MEDIUM prediction for a vector with dates whose blend has more than
\* two decimals
C26_Witness ==
    /\ TrainedMode
    /\ IsRiskScore(risk)
    /\ clf # Idle
    /\ clf.prediction = 1
    /\ features.num_dates > 0
    /\ risk.score * ProbGrid # StatedBlend(clf.probabilities)

\* C30: in trained-classifier mode, with class probabilities non-negative
\* and summing to 1, the score lies between 25 and 100, also when the
\* predicted level is LOW; the level is not a function of the score: the
\* same probabilities with another predicted index give the same score and
\* another level.
C30_TrainedScoreAtLeast25 ==
    (TrainedMode /\ risk # Idle) =>
        /\ IsRiskScore(risk)
        /\ 2500 <= risk.score
        /\ risk.score <= 10000
        /\ \E i \in 0..2 :
              LET other == ml_based_scoring(features, i, clf.probabilities)
              IN  /\ other.score = risk.score
                  /\ other.level # risk.level

\* the most probable class is LOW and is the one predicted, with a score in
\* the range the rule-based thresholds would call MEDIUM
C30_Witness ==
    /\ TrainedMode
    /\ IsRiskScore(risk)
    /\ clf # Idle
    /\ clf.prediction = 0
    /\ clf.probabilities[1] > clf.probabilities[2]
    /\ clf.probabilities[1] > clf.probabilities[3]
    /\ risk.level = LOW
    /\ risk.score > 5000

(***************************************************************************)
(* The static rewrite's claim.                                             *)
(***************************************************************************)
StaticRewriteReturned == llm_out # Idle /\ "returned" \in DOMAIN llm_out

\* C27: the static rewrite tier always returns a string of at least 50
\* characters: whenever the assembled paraphrase is shorter than 50
\* characters the fixed generic paragraph is returned instead, for every
\* text and entity list.
C27_AtLeast50Characters ==
    StaticRewriteReturned =>
        LET assembled == join(" ", rewrite_parts(llm_in.text, llm_in.pii_entities))
        IN  /\ Len(llm_out.returned) >= 50
            /\ Len(assembled) < 50 => llm_out.returned = GenericParagraph
            /\ Len(assembled) >= 50 => llm_out.returned = assembled

\* a person in a text no section tests: the assembled paraphrase is the
\* 42-character greeting alone, and the paragraph is returned
C27_Witness ==
    /\ StaticRewriteReturned
    /\ llm_in.text = "hi there"
    /\ Len(llm_in.pii_entities) = 1
    /\ llm_in.pii_entities[1].type = "PERSON"
    /\ Len(join(" ", rewrite_parts(llm_in.text, llm_in.pii_entities))) = 42
    /\ llm_out.returned = GenericParagraph

====
